---- MODULE Spec2Model ----
(***************************************************************************)
(* Multi-source dosage resolution (src/multi_source_dosage.py) and its     *)
(* HTTP entry point (src/server.py).                                       *)
(*                                                                         *)
(* Strings are sequences of characters.  A character is a one-letter       *)
(* string; the Arabic letters are written by name (ALEF, MEEM, ...).       *)
(* Python dicts are records; a Python None is the record None.             *)
(***************************************************************************)
EXTENDS Integers, Sequences, FiniteSets, TLC

(* ------------------------------------------------------------------ *)
(* Characters                                                          *)
(* ------------------------------------------------------------------ *)

\* the characters of the block U+0600-U+06FF that the modelled inputs use
ArabicChars == {"ALEF", "SEEN", "BEH", "REH", "YEH", "NOON", "KAF", "FEH",
                "MEEM", "JEEM"}

Digits == {"0", "1", "2", "3", "4", "5", "6", "7", "8", "9"}

\* variant: only the plus sign separates ingredients
Separators_PlusOnly == {"+"}

\* the characters re.split(r'[+/,]') cuts at
Separators == {"+", "/", ","}

\* the line feed
NL == "\n"

Whitespace == {" ", NL}

IsSpace(c) == c \in Whitespace

UpperLetters == <<"A", "B", "C", "D", "E", "F", "G", "H", "I", "J", "K", "L", "M", "N", "O", "P", "Q", "R", "S", "T", "U", "V", "W", "X", "Y", "Z">>
LowerLetters == <<"a", "b", "c", "d", "e", "f", "g", "h", "i", "j", "k", "l", "m", "n", "o", "p", "q", "r", "s", "t", "u", "v", "w", "x", "y", "z">>

\* the lower-case letter of each upper-case letter
LowerMap ==
    [c \in {UpperLetters[i] : i \in 1..Len(UpperLetters)} |->
        LowerLetters[CHOOSE i \in 1..Len(UpperLetters) : UpperLetters[i] = c]]

\* str.lower() on one character
LowerChar(c) == IF c \in DOMAIN LowerMap THEN LowerMap[c] ELSE c

\* str.lower()
Lower(s) == [i \in 1..Len(s) |-> LowerChar(s[i])]

\* s[a..b], empty when b < a
Slice(s, a, b) == IF b < a THEN <<>> ELSE SubSeq(s, a, b)

\* s[:n]
Take(s, n) == Slice(s, 1, IF Len(s) < n THEN Len(s) ELSE n)

\* the text of s from position p starts with pat
StartsAt(s, p, pat) ==
    /\ p + Len(pat) - 1 <= Len(s)
    /\ \A k \in 1..Len(pat) : s[p + k - 1] = pat[k]

\* pat in s
Contains(s, pat) == \E p \in 1..(Len(s) + 1) : StartsAt(s, p, pat)

\* str.replace(pat, rep): leftmost, non-overlapping occurrences (pat non-empty)
RECURSIVE Replace(_, _, _)
Replace(s, pat, rep) ==
    IF s = <<>> THEN <<>>
    ELSE IF StartsAt(s, 1, pat)
         THEN rep \o Replace(Slice(s, Len(pat) + 1, Len(s)), pat, rep)
         ELSE <<s[1]>> \o Replace(Tail(s), pat, rep)

\* str.strip()
RECURSIVE LStrip(_)
LStrip(s) == IF s # <<>> /\ IsSpace(s[1]) THEN LStrip(Tail(s)) ELSE s

RECURSIVE RStrip(_)
RStrip(s) ==
    IF s # <<>> /\ IsSpace(s[Len(s)]) THEN RStrip(Slice(s, 1, Len(s) - 1)) ELSE s

Strip(s) == RStrip(LStrip(s))

(* ------------------------------------------------------------------ *)
(* Name parser / normalizer                                            *)
(* ------------------------------------------------------------------ *)

\* a Python None where a string is expected (no string over the alphabet)
NoneStr == <<"<None>">>

\* entries of the static Arabic -> English map, in dict order
\* (the entries for aspirin and caffeine; the others have the same shape)
ARABIC_ENGLISH_MAPPING ==
    << [arabic  |-> <<"ALEF", "SEEN", "BEH", "REH", "YEH", "NOON">>,
        english |-> <<"a", "s", "p", "i", "r", "i", "n">>],
       [arabic  |-> <<"KAF", "ALEF", "FEH", "YEH", "YEH", "NOON">>,
        english |-> <<"c", "a", "f", "f", "e", "i", "n", "e">>] >>

\* variant: the language is decided on the first character
detect_language_FirstCharacter(text) ==
    IF text # <<>> /\ text[1] \in ArabicChars THEN "ar" ELSE "en"

\* 'ar' if the text holds a character of the Arabic block, else 'en'
detect_language(text) ==
    IF \E i \in 1..Len(text) : text[i] \in ArabicChars THEN "ar" ELSE "en"

RECURSIVE TranslateFrom(_, _)
TranslateFrom(s, k) ==
    IF k > Len(ARABIC_ENGLISH_MAPPING) THEN s
    ELSE LET m == ARABIC_ENGLISH_MAPPING[k]
         IN  TranslateFrom(IF Contains(s, m.arabic)
                           THEN Replace(s, m.arabic, m.english)
                           ELSE s, k + 1)

\* lower-case the name, then replace every mapped Arabic term
translate_arabic_to_english(drug_name) == TranslateFrom(Lower(drug_name), 1)

\* re.split(r'[+/,]', s)
RECURSIVE SplitFrom(_, _)
SplitFrom(s, cur) ==
    IF s = <<>> THEN <<cur>>
    ELSE IF s[1] \in Separators
         THEN <<cur>> \o SplitFrom(Tail(s), <<>>)
         ELSE SplitFrom(Tail(s), Append(cur, s[1]))

Split(s) == SplitFrom(s, <<>>)

\* the unit alternatives of the pattern, in the order the pattern tries them
UnitPatterns ==
    << <<"m", "g">>, <<"g">>, <<"m", "l">>, <<"m", "c", "g">>, <<"%">>,
       <<"MEEM", "JEEM", "MEEM">>, <<"JEEM", "MEEM">> >>

\* end of the longest run of characters of class cls starting at p (p - 1 if none)
RECURSIVE RunEnd(_, _, _)
RunEnd(s, p, cls) ==
    IF p <= Len(s) /\ s[p] \in cls THEN RunEnd(s, p + 1, cls) ELSE p - 1

\* \s*(\d+\.?\d*)\s*(unit) tried at position p: every quantifier is greedy and
\* none can give a character back (a unit starts with no space, digit or dot),
\* so the greedy path is the only one.  ok, and the spans of groups 2 and 3.
TailMatch(s, p) ==
    LET d1  == RunEnd(s, p, {" "}) + 1
        e1  == RunEnd(s, d1, Digits)
        dot == IF e1 + 1 <= Len(s) /\ s[e1 + 1] = "." THEN e1 + 1 ELSE e1
        e2  == RunEnd(s, dot + 1, Digits)
        u   == RunEnd(s, e2 + 1, {" "}) + 1
        low == Lower(s)
        hit == {k \in 1..Len(UnitPatterns) : StartsAt(low, u, UnitPatterns[k])}
        k0  == CHOOSE k \in hit : \A j \in hit : k <= j
    IN  IF e1 >= d1 /\ hit # {}
        THEN [ok |-> TRUE, strength |-> Slice(s, d1, e2),
              unit |-> Slice(s, u, u + Len(UnitPatterns[k0]) - 1)]
        ELSE [ok |-> FALSE, strength |-> <<>>, unit |-> <<>>]

\* re.search(r'(.+?)\s*(\d+\.?\d*)\s*(unit)', part, re.IGNORECASE): group 1 is
\* lazy and at least one character long, so the match starts at the first
\* character and group 1 ends before the first position >= 2 where the tail matches
Search(part) ==
    LET ps == {p \in 2..Len(part) : TailMatch(part, p).ok}
    IN  IF ps = {} THEN [ok |-> FALSE]
        ELSE LET p == CHOOSE q \in ps : \A r \in ps : q <= r
                 t == TailMatch(part, p)
             IN  [ok |-> TRUE, g1 |-> Slice(part, 1, p - 1),
                  g2 |-> t.strength, g3 |-> t.unit]

\* match.group(3).lower().replace('mjm', 'mg').replace('jm', 'g')
NormalizeUnit(u) ==
    Replace(Replace(Lower(u), <<"MEEM", "JEEM", "MEEM">>, <<"m", "g">>),
            <<"JEEM", "MEEM">>, <<"g">>)

\* variant: the segment is used as it was cut, blanks included
ParsePart_Untrimmed(rawPart, original_name, language) ==
    LET match == Search(rawPart)
    IN  IF match.ok
        THEN [ingredient |-> Strip(match.g1), strength |-> match.g2,
              unit |-> NormalizeUnit(match.g3),
              original_name |-> original_name, language |-> language]
        ELSE [ingredient |-> rawPart, strength |-> NoneStr, unit |-> NoneStr,
              original_name |-> original_name, language |-> language]

\* one ingredient descriptor per segment
ParsePart(rawPart, original_name, language) ==
    LET part  == Strip(rawPart)
        match == Search(part)
    IN  IF match.ok
        THEN [ingredient |-> Strip(match.g1), strength |-> match.g2,
              unit |-> NormalizeUnit(match.g3),
              original_name |-> original_name, language |-> language]
        ELSE [ingredient |-> part, strength |-> NoneStr, unit |-> NoneStr,
              original_name |-> original_name, language |-> language]

parse_drug_name(drug_name) ==
    LET language == detect_language(drug_name)
        name     == IF language = "ar" THEN translate_arabic_to_english(drug_name)
                    ELSE drug_name
        parts    == Split(name)
    IN  [i \in 1..Len(parts) |-> ParsePart(parts[i], drug_name, language)]

(* ------------------------------------------------------------------ *)
(* Source adapters                                                     *)
(* ------------------------------------------------------------------ *)

\* Python None
None == [none |-> TRUE]

\* r and isinstance(r, dict)
IsDict(r) == "none" \notin DOMAIN r /\ "exception" \notin DOMAIN r

\* dict.get(k, default)
Get(d, k, default) == IF k \in DOMAIN d THEN d[k] ELSE default

\* EMERGENT_LLM_KEY values: unset (empty, falsy) or set
KeyValues == {"", "llm-key"}

FDA == "FDA OpenFDA"
RXNORM == "RxNorm NLM"
DAILYMED == "DailyMed"
GEMINI == "Google Gemini AI"

\* an exception object (raised by a request, by response.json() or by a lookup)
Raised == [exception |-> TRUE]

IsException(r) == "exception" \in DOMAIN r

\* what a request gives: an exception (network error, timeout) or an HTTP
\* response with a status and a body; a body is Malformed (response.json()
\* raises) or the decoded JSON value
NetworkError == [kind |-> "exception"]
Malformed == [malformed |-> TRUE]
Http(status, body) == [kind |-> "http", status |-> status, body |-> body]

IsMalformed(body) == "malformed" \in DOMAIN body

\* {} and []
Empty == <<>>

\* variant: no try/except around the adapter body
Catch_Nothing(r, final) == IF r = None THEN final ELSE r

\* try: <body> except Exception: print(...) followed by the final return:
\* a body that raised or fell through gives the final value
Catch(r, final) == IF IsException(r) \/ r = None THEN final ELSE r

\* the literal defaults of the adapters
Unknown == <<"U", "n", "k", "n", "o", "w", "n">>
SeePrescribing == <<"S", "e", "e", " ", "p", "r", "e", "s", "c", "r", "i", "b", "i", "n", "g", " ", "i", "n", "f", "o", "r", "m", "a", "t", "i", "o", "n">>
NotSpecified == <<"N", "o", "t", " ", "s", "p", "e", "c", "i", "f", "i", "e", "d">>

\* the slices of search_fda_api
FdaDosageLimit == 500
FdaUseLimit == 200
FdaWarningsLimit == 300

\* x.get(k, [''])[0] if x.get(k) else ''
FirstOrEmpty(x, k) == IF Get(x, k, Empty) # Empty THEN x[k][1] ELSE <<>>

\* the body of the try block of search_fda_api
FdaTry(ings, resp) ==
    IF resp.kind = "exception" THEN Raised
    ELSE IF resp.status # 200 THEN None
    ELSE IF IsMalformed(resp.body) THEN Raised
    ELSE IF Get(resp.body, "results", Empty) = Empty THEN None
    ELSE LET result  == resp.body.results[1]
             openfda == Get(result, "openfda", Empty)
             dosage_form_list == Get(openfda, "route", Empty)
             indications == FirstOrEmpty(result, "indications_and_usage")
             dosage_list == Get(result, "dosage_and_administration", <<NotSpecified>>)
         IN  IF dosage_list = Empty THEN Raised   \* [0] of an empty list
             ELSE [source |-> FDA, ingredient |-> ings[1].ingredient,
                   dosage_form |-> IF dosage_form_list # Empty
                                   THEN dosage_form_list[1] ELSE Unknown,
                   product_type |-> FirstOrEmpty(openfda, "product_type"),
                   common_use |-> Take(indications, FdaUseLimit),
                   dosage |-> Take(dosage_list[1], FdaDosageLimit),
                   warnings |-> Take(FirstOrEmpty(result, "warnings"), FdaWarningsLimit),
                   confidence |-> "high", found |-> TRUE]

search_fda_api(ings, resp) == Catch(FdaTry(ings, resp), None)

\* the body of the try block of search_rxnorm_api; resp holds the outcome of
\* the search request and of the properties request
RxNormTry(ings, resp) ==
    IF resp.search.kind = "exception" THEN Raised
    ELSE IF resp.search.status # 200 THEN None
    ELSE IF IsMalformed(resp.search.body) THEN Raised
    ELSE LET candidates == Get(Get(resp.search.body, "approximateGroup", Empty),
                               "candidate", Empty)
         IN  IF candidates = Empty THEN None
             ELSE IF resp.properties.kind = "exception" THEN Raised
             ELSE IF resp.properties.status # 200 THEN None
             ELSE IF IsMalformed(resp.properties.body) THEN Raised
             ELSE LET properties == Get(resp.properties.body, "properties", Empty)
                  IN  [source |-> RXNORM,
                       ingredient |-> Get(properties, "name", ings[1].ingredient),
                       rxcui |-> Get(candidates[1], "rxcui", NoneStr),
                       found |-> TRUE, confidence |-> "high"]

search_rxnorm_api(ings, resp) == Catch(RxNormTry(ings, resp), None)

\* the body of the try block of search_dailymed_api
DailyMedTry(ings, resp) ==
    IF resp.kind = "exception" THEN Raised
    ELSE IF resp.status # 200 THEN None
    ELSE IF IsMalformed(resp.body) THEN Raised
    ELSE IF Get(resp.body, "data", Empty) = Empty THEN None
    ELSE [source |-> DAILYMED, ingredient |-> ings[1].ingredient, found |-> TRUE,
          confidence |-> "medium",
          setid |-> Get(resp.body.data[1], "setid", NoneStr)]

search_dailymed_api(ings, resp) == Catch(DailyMedTry(ings, resp), None)

\* the labels of the answer format the prompt asks for
LabelForm == <<"D", "O", "S", "A", "G", "E", "_", "F", "O", "R", "M", ":">>
LabelUse == <<"C", "O", "M", "M", "O", "N", "_", "U", "S", "E", ":">>
LabelDosage == <<"D", "O", "S", "A", "G", "E", ":">>
LabelAdministration == <<"A", "D", "M", "I", "N", "I", "S", "T", "R", "A", "T", "I", "O", "N", ":">>
LabelDuration == <<"D", "U", "R", "A", "T", "I", "O", "N", ":">>
LabelWarnings == <<"W", "A", "R", "N", "I", "N", "G", "S", ":">>

\* The patterns r'LABEL:\s*(.+?)(?=...)' of search_google_gemini.  The
\* lookahead holds at the end of the text (or before a final line feed),
\* before a line feed when lineEnd, and before one of the stop labels; low is
\* the text in lower case (re.IGNORECASE).
Ahead(text, low, pos, lineEnd, stops) ==
    \/ pos = Len(text) + 1
    \/ pos = Len(text) /\ text[pos] = NL
    \/ lineEnd /\ pos <= Len(text) /\ text[pos] = NL
    \/ \E st \in stops : StartsAt(low, pos, st)

\* the lazy group (.+?) starts at c: it ends at the first position after
\* which the lookahead holds, 0 if there is none before the text ends or '.'
\* refuses a character ('.' matches a line feed only under re.DOTALL)
LazyEnd(text, low, c, dotall, lineEnd, stops) ==
    LET n   == Len(text)
        nls == IF dotall THEN {} ELSE {i \in c..n : text[i] = NL}
        lim == IF nls = {} THEN n
               ELSE (CHOOSE i \in nls : \A j \in nls : i <= j) - 1
        es  == {e \in c..lim : Ahead(text, low, e + 1, lineEnd, stops)}
    IN  IF es = {} THEN 0 ELSE CHOOSE e \in es : \A x \in es : e <= x

\* \s* is greedy and gives white space back one character at a time: the
\* group starts at c, else at c - 1, ..., down to q, the end of the label
RECURSIVE GroupAt(_, _, _, _, _, _, _)
GroupAt(text, low, q, c, dotall, lineEnd, stops) ==
    IF c < q THEN <<0, 0>>
    ELSE IF LazyEnd(text, low, c, dotall, lineEnd, stops) > 0
    THEN <<c, LazyEnd(text, low, c, dotall, lineEnd, stops)>>
    ELSE GroupAt(text, low, q, c - 1, dotall, lineEnd, stops)

\* re.search(label + r'\s*(.+?)' + lookahead, text, flags | re.IGNORECASE):
\* the leftmost start position at which the pattern matches
LabelSearch(text, label, dotall, lineEnd, stops) ==
    LET low == Lower(text)
        lab == Lower(label)
        sts == {Lower(st) : st \in stops}
        Group(p) == GroupAt(text, low, p + Len(lab),
                            RunEnd(text, p + Len(lab), Whitespace) + 1,
                            dotall, lineEnd, sts)
        ps  == {p \in 1..Len(text) : StartsAt(low, p, lab) /\ Group(p)[1] > 0}
    IN  IF ps = {} THEN [ok |-> FALSE]
        ELSE LET g == Group(CHOOSE p \in ps : \A x \in ps : p <= x)
             IN  [ok |-> TRUE, g1 |-> Slice(text, g[1], g[2])]

\* the slices of search_google_gemini
RawLimit == 300
FormLimit == 100
UseLimit == 200
DosageLimit == 500
AdministrationLimit == 300
DurationLimit == 200
WarningsLimit == 300

AiNoteText == "AI-generated information - Please verify with healthcare professional"

\* m.group(1).strip() if m else default
GroupOr(m, default) == IF m.ok THEN Strip(m.g1) ELSE default

\* variant: every field whose label is not matched is left empty
GeminiFields_EmptyDefaults(text) ==
    [dosage_form |-> GroupOr(LabelSearch(text, LabelForm, FALSE, TRUE, {}), <<>>),
     common_use |-> GroupOr(LabelSearch(text, LabelUse, FALSE, TRUE, {}), <<>>),
     dosage |-> GroupOr(LabelSearch(text, LabelDosage, TRUE, FALSE, {LabelAdministration}),
                        <<>>),
     administration |-> GroupOr(LabelSearch(text, LabelAdministration, TRUE, FALSE,
                                            {LabelDuration}), <<>>),
     duration |-> GroupOr(LabelSearch(text, LabelDuration, TRUE, FALSE, {LabelWarnings}),
                          <<>>),
     warnings |-> GroupOr(LabelSearch(text, LabelWarnings, TRUE, FALSE, {}), <<>>)]

\* the six fields read from the answer text, before they are cut to length
GeminiFields(text) ==
    [dosage_form |-> GroupOr(LabelSearch(text, LabelForm, FALSE, TRUE, {}), Unknown),
     common_use |-> GroupOr(LabelSearch(text, LabelUse, FALSE, TRUE, {}), <<>>),
     dosage |-> GroupOr(LabelSearch(text, LabelDosage, TRUE, FALSE, {LabelAdministration}),
                        Take(text, RawLimit)),
     administration |-> GroupOr(LabelSearch(text, LabelAdministration, TRUE, FALSE,
                                            {LabelDuration}), <<>>),
     duration |-> GroupOr(LabelSearch(text, LabelDuration, TRUE, FALSE, {LabelWarnings}),
                          <<>>),
     warnings |-> GroupOr(LabelSearch(text, LabelWarnings, TRUE, FALSE, {}), <<>>)]

\* data['candidates'][0]['content']['parts'][0]['text']: the text, or the
\* exception of the lookup that fails (the path content.parts[0] is folded
\* into the candidate)
CompletionText(data) ==
    IF "candidates" \notin DOMAIN data THEN Raised
    ELSE IF data.candidates = Empty THEN Raised
    ELSE IF "text" \notin DOMAIN data.candidates[1] THEN Raised
    ELSE [text |-> data.candidates[1].text]

\* variant: an answer in which no label is matched is dropped
GeminiTry_LabelledOnly(ings, resp) ==
    IF resp.kind = "exception" THEN Raised
    ELSE IF resp.status # 200 THEN None
    ELSE IF IsMalformed(resp.body) THEN Raised
    ELSE IF IsException(CompletionText(resp.body)) THEN Raised
    ELSE LET text == CompletionText(resp.body).text
             f    == GeminiFields(text)
         IN  IF \A l \in {LabelForm, LabelUse, LabelDosage, LabelAdministration,
                          LabelDuration, LabelWarnings} : ~Contains(Lower(text), Lower(l))
             THEN None
             ELSE [source |-> GEMINI, ingredient |-> ings[1].ingredient,
                   dosage_form |-> Take(f.dosage_form, FormLimit),
                   common_use |-> Take(f.common_use, UseLimit),
                   dosage |-> Take(f.dosage, DosageLimit),
                   administration_method |-> Take(f.administration, AdministrationLimit),
                   treatment_duration |-> Take(f.duration, DurationLimit),
                   warnings |-> Take(f.warnings, WarningsLimit),
                   found |-> TRUE, confidence |-> "low", note |-> AiNoteText]

\* the body of the try block of search_google_gemini
GeminiTry(ings, resp) ==
    IF resp.kind = "exception" THEN Raised
    ELSE IF resp.status # 200 THEN None
    ELSE IF IsMalformed(resp.body) THEN Raised
    ELSE IF IsException(CompletionText(resp.body)) THEN Raised
    ELSE LET f == GeminiFields(CompletionText(resp.body).text)
         IN  [source |-> GEMINI, ingredient |-> ings[1].ingredient,
              dosage_form |-> Take(f.dosage_form, FormLimit),
              common_use |-> Take(f.common_use, UseLimit),
              dosage |-> Take(f.dosage, DosageLimit),
              administration_method |-> Take(f.administration, AdministrationLimit),
              treatment_duration |-> Take(f.duration, DurationLimit),
              warnings |-> Take(f.warnings, WarningsLimit),
              found |-> TRUE, confidence |-> "low", note |-> AiNoteText]

\* variant: the request is made without a key, and only a failed request or
\* a status outside 2xx gives None
search_google_gemini_NullOnTransportOnly(ings, llmKey, resp) ==
    IF resp.kind = "exception" THEN None
    ELSE IF resp.status < 200 \/ resp.status > 299 THEN None
    ELSE IF IsMalformed(resp.body) \/ IsException(CompletionText(resp.body))
    THEN [source |-> GEMINI, ingredient |-> ings[1].ingredient,
          dosage_form |-> Unknown, common_use |-> <<>>, dosage |-> <<>>,
          administration_method |-> <<>>, treatment_duration |-> <<>>,
          warnings |-> <<>>, found |-> TRUE, confidence |-> "low",
          note |-> AiNoteText]
    ELSE GeminiTry(ings, Http(200, resp.body))

\* variant: no try/except around the request and the parsing of the answer
search_google_gemini_Uncaught(ings, llmKey, resp) ==
    IF llmKey = "" THEN None
    ELSE IF GeminiTry(ings, resp) = None THEN None ELSE GeminiTry(ings, resp)

\* the AI fallback adapter; it answers None at once when no key is configured
search_google_gemini(ings, llmKey, resp) ==
    IF llmKey = "" THEN None
    ELSE Catch(GeminiTry(ings, resp), None)

\* str.split(sep)
RECURSIVE SplitOn(_, _, _)
SplitOn(s, sep, cur) ==
    IF s = <<>> THEN <<cur>>
    ELSE IF s[1] = sep
         THEN <<cur>> \o SplitOn(Tail(s), sep, <<>>)
         ELSE SplitOn(Tail(s), sep, Append(cur, s[1]))

DigitSeq == <<"0", "1", "2", "3", "4", "5", "6", "7", "8", "9">>

\* the value of a run of digits
RECURSIVE Number(_)
Number(ds) ==
    IF ds = <<>> THEN 0
    ELSE 10 * Number(Slice(ds, 1, Len(ds) - 1))
         + (CHOOSE v \in 0..9 : DigitSeq[v + 1] = ds[Len(ds)])

\* int(s): an optional sign and at least one digit, or ValueError
int(s) ==
    LET signed == s # <<>> /\ s[1] \in {"+", "-"}
        ds     == IF signed THEN Tail(s) ELSE s
    IN  IF ds = <<>> \/ \E i \in 1..Len(ds) : ds[i] \notin Digits THEN Raised
        ELSE [value |-> IF signed /\ s[1] = "-" THEN 0 - Number(ds) ELSE Number(ds)]

NoApiKey == <<"N", "o", " ", "A", "P", "I", " ", "k", "e", "y">>
VerificationFailed == <<"V", "e", "r", "i", "f", "i", "c", "a", "t", "i", "o", "n", " ", "f", "a", "i", "l", "e", "d">>

\* the body of the try block of verify_with_gemini
VerifyTry(resp) ==
    IF resp.kind = "exception" THEN Raised
    ELSE IF resp.status # 200 THEN None
    ELSE IF IsMalformed(resp.body) THEN Raised
    ELSE IF IsException(CompletionText(resp.body)) THEN Raised
    ELSE LET parts == SplitOn(CompletionText(resp.body).text, "|", <<>>)
         IN  IF Len(parts) >= 3
             THEN IF IsException(int(Strip(parts[2]))) THEN Raised
                  ELSE [verified |-> Lower(Strip(parts[1])) = <<"y", "e", "s">>,
                        confidence |-> int(Strip(parts[2])).value,
                        reason |-> Strip(parts[3])]
             ELSE None

\* variant: the parsing of the answer is outside the try block
verify_with_gemini_ParseUncaught(llmKey, resp) ==
    IF llmKey = ""
    THEN [verified |-> FALSE, confidence |-> 0, reason |-> NoApiKey]
    ELSE IF resp.kind = "http" /\ resp.status = 200 /\ IsException(VerifyTry(resp))
    THEN Raised
    ELSE Catch(VerifyTry(resp),
               [verified |-> FALSE, confidence |-> 0, reason |-> VerificationFailed])

\* the AI verifier
verify_with_gemini(llmKey, resp) ==
    IF llmKey = ""
    THEN [verified |-> FALSE, confidence |-> 0, reason |-> NoApiKey]
    ELSE Catch(VerifyTry(resp),
               [verified |-> FALSE, confidence |-> 0, reason |-> VerificationFailed])

(* ------------------------------------------------------------------ *)
(* What the remote services answer                                     *)
(* ------------------------------------------------------------------ *)

\* a text of n characters
Filler(n) == [i \in 1..n |-> "x"]

\* openFDA label search
FdaBodyFull ==
    [results |-> <<[openfda |-> [route |-> <<<<"O", "R", "A", "L">>>>,
                                 product_type |-> <<<<"O", "T", "C">>>>],
                    indications_and_usage |-> <<<<"p", "a", "i", "n">>>>,
                    dosage_and_administration |-> <<<<"1", " ", "t", "a", "b">>>>,
                    warnings |-> <<<<"l", "i", "v", "e", "r">>>>]>>]
FdaBodyBare == [results |-> <<Empty>>]
FdaBodyNoRoute == [results |-> <<[openfda |-> Empty, warnings |-> <<<<"l", "i", "v", "e", "r">>>>]>>]
FdaBodyEmptyDosage == [results |-> <<[dosage_and_administration |-> Empty]>>]
FdaBodyLong ==
    [results |-> <<[indications_and_usage |-> <<Filler(FdaUseLimit + 1)>>,
                    dosage_and_administration |-> <<Filler(FdaDosageLimit + 1)>>,
                    warnings |-> <<Filler(FdaWarningsLimit + 1)>>]>>]
FdaBodyNoResults == [results |-> Empty]
FdaBodyError == [error |-> <<"N", "O", "T", "_", "F", "O", "U", "N", "D">>]

FdaCases ==
    {NetworkError, Http(404, FdaBodyError), Http(500, Malformed), Http(200, Malformed)}
    \cup {Http(200, body) : body \in {FdaBodyFull, FdaBodyBare, FdaBodyNoRoute,
                                      FdaBodyEmptyDosage, FdaBodyLong,
                                      FdaBodyNoResults, FdaBodyError, Empty}}

\* RxNorm approximate-term search and property lookup
RxNormBodyCandidate == [approximateGroup |-> [candidate |-> <<[rxcui |-> <<"1", "1", "9", "1">>]>>]]
RxNormBodyNoRxcui == [approximateGroup |-> [candidate |-> <<Empty>>]]
RxNormBodyNoCandidate == [approximateGroup |-> Empty]
RxNormBodyProperties == [properties |-> [name |-> <<"a", "s", "p", "i", "r", "i", "n">>]]
RxNormBodyNoName == [properties |-> Empty]

RxNormCases ==
    {[search |-> a, properties |-> b] :
        a \in {NetworkError, Http(500, Malformed), Http(200, Malformed),
               Http(200, RxNormBodyCandidate), Http(200, RxNormBodyNoRxcui),
               Http(200, RxNormBodyNoCandidate), Http(200, Empty)},
        b \in {NetworkError, Http(404, Malformed), Http(200, Malformed),
               Http(200, RxNormBodyProperties), Http(200, RxNormBodyNoName),
               Http(200, Empty)}}

\* DailyMed drug-name search
DailyMedBodyData == [data |-> <<[setid |-> <<"a", "1", "b", "2">>]>>]
DailyMedBodyNoSetid == [data |-> <<Empty>>]
DailyMedBodyNoData == [data |-> Empty]

DailyMedCases ==
    {NetworkError, Http(500, Malformed), Http(200, Malformed)}
    \cup {Http(200, body) : body \in {DailyMedBodyData, DailyMedBodyNoSetid,
                                      DailyMedBodyNoData, Empty}}

\* a body of the model endpoint holding one completion
Completion(text) == [candidates |-> <<[text |-> text]>>]

\* the lines of an answer in the format of the prompt
AnswerLines ==
    << <<"D", "O", "S", "A", "G", "E", "_", "F", "O", "R", "M", ":", " ", "t", "a", "b">>,
       <<"C", "O", "M", "M", "O", "N", "_", "U", "S", "E", ":", " ", "p", "a", "i", "n">>,
       <<"D", "O", "S", "A", "G", "E", ":", " ", "1", " ", "t", "a", "b">>,
       <<"A", "D", "M", "I", "N", "I", "S", "T", "R", "A", "T", "I", "O", "N", ":", " ", "o", "r", "a", "l">>,
       <<"D", "U", "R", "A", "T", "I", "O", "N", ":", " ", "3", " ", "d">>,
       <<"W", "A", "R", "N", "I", "N", "G", "S", ":", " ", "l", "i", "v", "e", "r">> >>

\* the lines k.. of the answer that are in I, each after a line feed
RECURSIVE AnswerFrom(_, _)
AnswerFrom(I, k) ==
    IF k > Len(AnswerLines) THEN <<>>
    ELSE IF k \in I THEN <<NL>> \o AnswerLines[k] \o AnswerFrom(I, k + 1)
    ELSE AnswerFrom(I, k + 1)

\* the answer holding the lines of I
Answer(I) == IF I = {} THEN <<>> ELSE Tail(AnswerFrom(I, 1))

AnswerFull == Answer(1..Len(AnswerLines))
AnswerShort == Answer({1, 3})
AnswerProse == <<"t", "a", "k", "e", " ", "1", " ", "t", "a", "b", " ", "d", "a", "i", "l", "y">>

GeminiTexts ==
    {Answer(I) : I \in SUBSET (1..Len(AnswerLines))}
    \cup {AnswerProse, AnswerFull \o <<NL>>, Filler(RawLimit + 1),
          <<"d", "o", "s", "a", "g", "e", ":", " ", "2", " ", "t", "a", "b">>,
          <<"D", "o", "s", "a", "g", "e", "_", "F", "o", "r", "m", ":", "c", "a", "p">> \o <<NL>> \o <<"d", "u", "r", "a", "t", "i", "o", "n", ":">>,
          <<"D", "O", "S", "A", "G", "E", "_", "F", "O", "R", "M", ":", " ">> \o <<NL>> \o <<"D", "O", "S", "A", "G", "E", ":", " ", "1", " ", "t", "a", "b">>,
          <<"W", "A", "R", "N", "I", "N", "G", "S", ":">> \o <<NL>>,
          <<"D", "O", "S", "A", "G", "E", "_", "F", "O", "R", "M", ":">> \o Filler(FormLimit + 1),
          <<"D", "O", "S", "A", "G", "E", ":", " ">> \o Filler(DosageLimit + 1)}

GeminiCases ==
    {NetworkError, Http(500, Malformed), Http(429, Empty), Http(204, Empty),
     Http(201, Completion(AnswerFull)), Http(200, Malformed), Http(200, Empty),
     Http(200, [candidates |-> Empty]), Http(200, [candidates |-> <<Empty>>])}
    \cup {Http(200, Completion(text)) : text \in GeminiTexts}

\* the answers of the model to the verification prompt
VerdictWords == {<<"Y", "e", "s">>, <<" ", "y", "e", "s", " ">>, <<"Y", "E", "S">>, <<"N", "o">>, <<"M", "a", "y", "b", "e">>, <<>>}
ScoreWords == {<<"9", "5">>, <<" ", "3", "0", " ">>, <<"0">>, <<"1", "5", "0">>, <<"-", "5">>, <<"h", "i", "g", "h">>, <<"9", ".", "5">>, <<"9", " ", "5">>, <<>>}
ReasonWords == {<<"o", "k">>, <<" ", "d", "o", "s", "e", " ", "i", "s", " ", "r", "i", "g", "h", "t", " ">>}

VerifyTexts ==
    {v \o <<"|">> \o c \o <<"|">> \o r :
        v \in VerdictWords, c \in ScoreWords, r \in ReasonWords}
    \cup {v \o <<"|">> \o c : v \in VerdictWords, c \in ScoreWords}
    \cup VerdictWords
    \cup {<<"Y", "e", "s", "|", "9", "5", "|", "o", "k", "|", "m", "o", "r", "e">>, <<"Y", "e", "s", "|", "9", "5", "|">>, <<"|", "|">>}

VerifyCases ==
    {NetworkError, Http(500, Malformed), Http(429, Empty), Http(200, Malformed),
     Http(200, Empty), Http(200, [candidates |-> Empty])}
    \cup {Http(200, Completion(text)) : text \in VerifyTexts}

\* the responses the authority tasks of one call may get
FdaResponses ==
    {NetworkError, Http(500, Malformed), Http(200, FdaBodyNoResults),
     Http(200, FdaBodyFull)}
RxNormResponses ==
    {[search |-> NetworkError, properties |-> NetworkError],
     [search |-> Http(500, Malformed), properties |-> NetworkError],
     [search |-> Http(200, RxNormBodyNoCandidate), properties |-> NetworkError],
     [search |-> Http(200, RxNormBodyCandidate), properties |-> Http(404, Malformed)],
     [search |-> Http(200, RxNormBodyCandidate),
      properties |-> Http(200, RxNormBodyProperties)]}
DailyMedResponses ==
    {NetworkError, Http(500, Malformed), Http(200, DailyMedBodyNoData),
     Http(200, DailyMedBodyData)}

\* the responses the AI fallback of one call may get
GeminiResponses ==
    {NetworkError, Http(500, Malformed), Http(200, Empty),
     Http(200, Completion(AnswerShort)), Http(200, Completion(AnswerProse))}

\* the responses the verifier of one call may get
VerifyResponses ==
    {NetworkError, Http(500, Malformed),
     Http(200, Completion(<<"Y", "e", "s", "|", "9", "5", "|", "o", "k">>)), Http(200, Completion(<<"N", "o", "|", "3", "0", "|", "o", "k">>)),
     Http(200, Completion(<<"Y", "e", "s", "|", "h", "i", "g", "h", "|", "o", "k">>)), Http(200, Completion(<<"Y", "e", "s">>))}

\* strict_match: a stub that accepts everything
strict_match(user_ingredients, api_result) == TRUE

(* ------------------------------------------------------------------ *)
(* Orchestrator: get_dosage_info                                       *)
(* ------------------------------------------------------------------ *)

\* bounds of the model
MaxTime == 24
TickHours == 12

\* validity of a cached answer, in hours
TTLHours == 24

\* the drug names the callers send
NameAspirin == <<"A", "s", "p", "i", "r", "i", "n", " ", "5", "0", "0", "m", "g">>
NameAspirinUpper == <<"a", "s", "p", "i", "r", "i", "n", " ", "5", "0", "0", " ", "M", "G">>
NameCombo == <<"a", "s", "p", "i", "r", "i", "n", " ", "5", "0", "0", "m", "g", " ",
               "+", " ", "C", "a", "f", "f", "e", "i", "n", "e">>
NameArabic == <<"ALEF", "SEEN", "BEH", "REH", "YEH", "NOON", " ", "5", "0", "0", " ",
                "MEEM", "JEEM", "MEEM">>

DrugNames == {NameAspirin, NameAspirinUpper, NameCombo, NameArabic}

\* the names sent when calls are repeated: two spellings of one product
RepeatNames == {NameAspirin, NameAspirinUpper}

\* a text is a sequence of passages, each in one language
EnText(t) == [lang |-> "en", text |-> t]
ArText(t) == [lang |-> "ar", text |-> t]

ParseFailureMessage ==
    <<EnText("Could not parse drug name"), ArText("drug name was not recognised")>>
NotFoundMessage ==
    <<EnText("No dosage information found in any source"),
      ArText("no dosage information was found")>>
NotFoundWarning ==
    <<ArText("consult your doctor or pharmacist for accurate dosage information")>>
WarningAr ==
    <<ArText("this is general information; consult the doctor for the accurate dosage")>>
WarningEn ==
    <<EnText("This is general information. Consult your doctor for accurate dosage.")>>

\* variant: the first adapter is dispatched a second time
Tasks_FdaTwice ==
    <<"search_fda_api", "search_rxnorm_api", "search_dailymed_api", "search_fda_api">>

\* variant: the third adapter is not dispatched
Tasks_WithoutDailyMed == <<"search_fda_api", "search_rxnorm_api">>

\* the authority adapter tasks handed to asyncio.gather, in this order
Tasks == <<"search_fda_api", "search_rxnorm_api", "search_dailymed_api">>

Functions == {"search_fda_api", "search_rxnorm_api", "search_dailymed_api",
              "search_google_gemini", "verify_with_gemini"}

\* the responses a task may get
TaskResponses(t) ==
    CASE t = "search_fda_api" -> FdaResponses
      [] t = "search_rxnorm_api" -> RxNormResponses
      [] t = "search_dailymed_api" -> DailyMedResponses

\* the value a task leaves in its slot (with return_exceptions=True an
\* exception a task raised would be left there as a value)
TaskResult(t, ings, resp) ==
    CASE t = "search_fda_api" -> search_fda_api(ings, resp)
      [] t = "search_rxnorm_api" -> search_rxnorm_api(ings, resp)
      [] t = "search_dailymed_api" -> search_dailymed_api(ings, resp)

\* a slot of gather whose task has not completed
Pending == [pending |-> TRUE]

\* variant: resume on the first found result (first-success semantics)
GatherDone_FirstSuccess(sl) ==
    \/ \A i \in DOMAIN sl : sl[i] # Pending
    \/ \E i \in DOMAIN sl : IsDict(sl[i]) /\ sl[i] # Pending

\* await asyncio.gather(*tasks, return_exceptions=True) resumes when every
\* task has completed
GatherDone(sl) == \A i \in DOMAIN sl : sl[i] # Pending

\* variant: the results are collected in the order the tasks completed
ValidResults_CompletionOrder(sl, ord) ==
    SelectSeq([k \in 1..Len(ord) |-> sl[ord[k]]],
              LAMBDA r : IsDict(r) /\ r # Pending /\ Get(r, "found", FALSE))

\* [r for r in results if r and isinstance(r, dict) and r.get('found')]
\* (results is in task order whatever the completion order ord)
ValidResults(sl, ord) ==
    SelectSeq(sl, LAMBDA r : IsDict(r) /\ r # Pending /\ Get(r, "found", FALSE))

\* variant: the AI fallback is tried whatever the authorities returned
NeedsFallback_Always(valid) == TRUE

\* if not valid_results: try the AI fallback
NeedsFallback(valid) == valid = <<>>

\* variant: the guard without the test of the best result's source
NeedsVerification_AnySource(use_ai, llmKey, best) == use_ai /\ llmKey # ""

\* the guard of step 5
NeedsVerification(use_ai, llmKey, best) ==
    use_ai /\ llmKey # "" /\ best.source # GEMINI

\* variant: the tier is the best result's own confidence field
Confidence_PerSource(valid) == Get(valid[1], "confidence", "medium")

\* variant: the tier counts the members only, the AI source is not demoted
Confidence_CountOnly(valid) == IF Len(valid) >= 2 THEN "high" ELSE "medium"

\* step 6, the confidence tier
Confidence(valid) ==
    LET best == valid[1]
        c    == IF Len(valid) >= 2 THEN "high" ELSE "medium"
    IN  IF Get(best, "source", "") = GEMINI THEN "low" ELSE c

\* variant: only the best result's source is listed
Sources_BestOnly(valid) == <<valid[1].source>>

\* [r['source'] for r in valid_results]
Sources(valid) == [i \in 1..Len(valid) |-> valid[i].source]

\* the answer when parse_drug_name gives no ingredient
ParseFailureResponse ==
    [found |-> FALSE, message |-> ParseFailureMessage, sources |-> <<>>]

\* variant: the not-found answer is labelled with a tier
NoSourceResponse_WithTier(ings) ==
    [found |-> FALSE, message |-> NotFoundMessage, ingredients |-> ings,
     sources |-> <<>>, warning_message |-> NotFoundWarning, confidence |-> "low"]

\* the answer when no source has data
NoSourceResponse(ings) ==
    [found |-> FALSE, message |-> NotFoundMessage, ingredients |-> ings,
     sources |-> <<>>, warning_message |-> NotFoundWarning]

\* variant: the note is attached to every answer
AiNote_Always(best) == [ai_note |-> Get(best, "note", "")]

\* the fields of the answer that exist only for an AI-sourced best result
AiNote(best) ==
    IF Get(best, "source", "") = GEMINI
    THEN [ai_note |-> Get(best, "note", "")]
    ELSE <<>>

\* variant: a verification that does not confirm the result withdraws it
BuildResponse_VerifierGates(ings, valid, aiv, language, utcnow) ==
    LET best == valid[1]
    IN  IF IsDict(aiv) /\ ~aiv.verified THEN NoSourceResponse(ings)
        ELSE [found |-> TRUE,
              ingredients |-> ings,
              dosage_form |-> Get(best, "dosage_form", Unknown),
              common_use |-> Get(best, "common_use", <<>>),
              dosage |-> Get(best, "dosage", SeePrescribing),
              administration_method |-> Get(best, "administration_method", <<>>),
              treatment_duration |-> Get(best, "treatment_duration", <<>>),
              warnings |-> Get(best, "warnings", <<>>),
              sources |-> Sources(valid),
              confidence |-> Confidence(valid),
              ai_verified |-> aiv,
              warning_message |-> IF language = "en" THEN WarningEn ELSE WarningAr,
              language |-> language,
              timestamp |-> utcnow] @@ AiNote(best)

\* variant: the answer lists only the ingredients the best result names
BuildResponse_NamedIngredients(ings, valid, aiv, language, utcnow) ==
    LET best == valid[1]
    IN  [found |-> TRUE,
         ingredients |-> SelectSeq(ings, LAMBDA x : x.ingredient = best.ingredient),
         dosage_form |-> Get(best, "dosage_form", Unknown),
         common_use |-> Get(best, "common_use", <<>>),
         dosage |-> Get(best, "dosage", SeePrescribing),
         administration_method |-> Get(best, "administration_method", <<>>),
         treatment_duration |-> Get(best, "treatment_duration", <<>>),
         warnings |-> Get(best, "warnings", <<>>),
         sources |-> Sources(valid),
         confidence |-> Confidence(valid),
         ai_verified |-> aiv,
         warning_message |-> IF language = "en" THEN WarningEn ELSE WarningAr,
         language |-> language,
         timestamp |-> utcnow] @@ AiNote(best)

\* steps 4 and 6: the answer built from the first valid result
BuildResponse(ings, valid, aiv, language, utcnow) ==
    LET best == valid[1]
    IN  [found |-> TRUE,
         ingredients |-> ings,
         dosage_form |-> Get(best, "dosage_form", Unknown),
         common_use |-> Get(best, "common_use", <<>>),
         dosage |-> Get(best, "dosage", SeePrescribing),
         administration_method |-> Get(best, "administration_method", <<>>),
         treatment_duration |-> Get(best, "treatment_duration", <<>>),
         warnings |-> Get(best, "warnings", <<>>),
         sources |-> Sources(valid),
         confidence |-> Confidence(valid),
         ai_verified |-> aiv,
         warning_message |-> IF language = "en" THEN WarningEn ELSE WarningAr,
         language |-> language,
         timestamp |-> utcnow] @@ AiNote(best)

VARIABLES
    EMERGENT_LLM_KEY,     \* the configured model API key ("" when unset)
    now,                  \* the clock, in hours
    pc,                   \* where get_dosage_info is: idle, gather, fallback,
                          \* verify, done
    drug_name,            \* the arguments of the call in progress
    use_ai_verification,
    ingredients,          \* the parsed ingredient list
    slots,                \* the result slots of gather, one per task
    order,                \* the tasks in the order they completed
    inflight,             \* the adapter calls awaiting their response
    valid_results,
    gemini_result,        \* what the AI fallback adapter returned
    ai_verification,
    response,             \* the value the call returns
    calls,                \* how often each adapter function was invoked by
                          \* the call in progress
    history,              \* whether the previous call is recorded in prev
    prev,                 \* the previous call: its ingredients, answer and time
    adapter_call,         \* an adapter awaited on its own: the function, its
                          \* arguments, the response it gets and its result
    parse_call,           \* parse_drug_name called on its own: the name it is
                          \* given and the list it returns
    OPENAI_API_KEY,       \* the second configured API key ("" when unset)
    interaction_cache,    \* the documents of the collection db.interaction_cache
    handlers,             \* the calls of check_drug_interactions in progress
    dosage_request,       \* the call of get_multi_source_dosage in progress
    key_call              \* the cache key built on its own for two requests

vars == <<EMERGENT_LLM_KEY, now, pc, drug_name, use_ai_verification, ingredients,
          slots, order, inflight, valid_results, gemini_result, ai_verification,
          response, calls, history, prev, adapter_call, parse_call, OPENAI_API_KEY,
          interaction_cache, handlers, dosage_request, key_call>>

\* the state of the HTTP handlers of server.py
server == <<OPENAI_API_KEY, interaction_cache, handlers, dosage_request, key_call>>

NoCalls == [f \in Functions |-> 0]

Inc(c, f) == [c EXCEPT ![f] = @ + 1]

NoAdapterCall == [fn |-> "none"]

NoParseCall == [text |-> <<>>, returned |-> FALSE, result |-> <<>>]

\* the workers that serve check_drug_interactions concurrently
Workers == {1, 2}

NoHandler == [pc |-> "idle"]

NoDosageRequest == [pc |-> "idle"]

NoKeyCall == [returned |-> FALSE]

\* no request has reached the server, the cache collection is empty
NoServerCall ==
    /\ OPENAI_API_KEY = ""
    /\ interaction_cache = <<>>
    /\ handlers = [w \in Workers |-> NoHandler]
    /\ dosage_request = NoDosageRequest
    /\ key_call = NoKeyCall

NoPrev == [called |-> FALSE, ingredients |-> <<>>, response |-> None,
           returned_at |-> 0]

InitCall ==
    /\ EMERGENT_LLM_KEY \in KeyValues
    /\ now = 0
    /\ pc = "idle"
    /\ drug_name = <<>>
    /\ use_ai_verification = FALSE
    /\ ingredients = <<>>
    /\ slots = <<>>
    /\ order = <<>>
    /\ inflight = {}
    /\ valid_results = <<>>
    /\ gemini_result = None
    /\ ai_verification = None
    /\ response = None
    /\ calls = NoCalls
    /\ prev = NoPrev

\* single calls, nothing recorded between them
Init ==
    InitCall /\ history = FALSE /\ adapter_call = NoAdapterCall
             /\ parse_call = NoParseCall /\ NoServerCall

\* repeated calls, each seeing the record of the one before
InitRepeat ==
    InitCall /\ history = TRUE /\ adapter_call = NoAdapterCall
             /\ parse_call = NoParseCall /\ NoServerCall

\* variant: when no source has data the authorities are queried again
Unresolved_Requery(c) ==
    /\ pc' = "gather"
    /\ inflight' = {}
    /\ valid_results' = <<>>
    /\ ai_verification' = None
    /\ response' = None
    /\ calls' = calls

\* the call returns found=false
Unresolved(c) ==
    /\ pc' = "done"
    /\ inflight' = {}
    /\ valid_results' = <<>>
    /\ ai_verification' = None
    /\ response' = NoSourceResponse(ingredients)
    /\ calls' = c

\* steps 4 to 6 up to the next await: pick the best result, then either start
\* the verifier or build the answer
Select(valid, c) ==
    LET best == valid[1]
    IN  /\ valid_results' = valid
        /\ ai_verification' = None
        /\ IF NeedsVerification(use_ai_verification, EMERGENT_LLM_KEY, best)
           THEN /\ pc' = "verify"
                /\ inflight' = {"verify_with_gemini"}
                /\ calls' = Inc(c, "verify_with_gemini")
                /\ response' = None
           ELSE /\ pc' = "done"
                /\ inflight' = {}
                /\ calls' = c
                /\ response' = BuildResponse(ingredients, valid, None,
                                             ingredients[1].language, now)

\* get_dosage_info(drug_name, use_ai_verification) up to the gather
Call(name, use_ai) ==
    /\ pc = "idle"
    /\ drug_name' = name
    /\ use_ai_verification' = use_ai
    /\ LET ings == parse_drug_name(name)
       IN  /\ ingredients' = ings
           /\ order' = <<>>
           /\ valid_results' = <<>>
           /\ gemini_result' = None
           /\ ai_verification' = None
           /\ IF ings = <<>>
              THEN /\ pc' = "done"
                   /\ response' = ParseFailureResponse
                   /\ slots' = <<>>
                   /\ inflight' = {}
                   /\ calls' = NoCalls
              ELSE /\ pc' = "gather"
                   /\ response' = None
                   /\ slots' = [i \in 1..Len(Tasks) |-> Pending]
                   /\ inflight' = {Tasks[i] : i \in 1..Len(Tasks)}
                   /\ calls' = [f \in Functions |->
                                  Cardinality({i \in 1..Len(Tasks) : Tasks[i] = f})]
    /\ UNCHANGED <<EMERGENT_LLM_KEY, now, history, prev, adapter_call,
                   parse_call, server>>

\* one authority task completes: its result goes to its own slot
TaskComplete(i, resp) ==
    /\ pc = "gather"
    /\ slots[i] = Pending
    /\ slots' = [slots EXCEPT ![i] = TaskResult(Tasks[i], ingredients, resp)]
    /\ order' = Append(order, i)
    /\ inflight' = inflight \ {Tasks[i]}
    /\ UNCHANGED <<EMERGENT_LLM_KEY, now, pc, drug_name, use_ai_verification,
                   ingredients, valid_results, gemini_result, ai_verification,
                   response, calls, history, prev, adapter_call,
                   parse_call, server>>

\* gather returns: filter, then the AI fallback (step 3) or the selection
Join ==
    /\ pc = "gather"
    /\ GatherDone(slots)
    /\ LET valid == ValidResults(slots, order)
       IN  IF NeedsFallback(valid)
           THEN IF EMERGENT_LLM_KEY = ""
                THEN \* search_google_gemini returns None without a request
                     Unresolved(Inc(calls, "search_google_gemini"))
                ELSE /\ pc' = "fallback"
                     /\ inflight' = {"search_google_gemini"}
                     /\ calls' = Inc(calls, "search_google_gemini")
                     /\ valid_results' = valid
                     /\ UNCHANGED <<ai_verification, response>>
           ELSE Select(valid, calls)
    /\ UNCHANGED <<EMERGENT_LLM_KEY, now, drug_name, use_ai_verification,
                   ingredients, slots, order, gemini_result, history, prev,
                   adapter_call,
                   parse_call, server>>

\* an exception raised by an awaited adapter leaves get_dosage_info
Propagate(e) ==
    /\ pc' = "raised"
    /\ inflight' = {}
    /\ response' = e
    /\ UNCHANGED <<valid_results, ai_verification, calls>>

\* the AI fallback adapter returns
GeminiComplete(resp) ==
    /\ pc = "fallback"
    /\ \E g \in {search_google_gemini(ingredients, EMERGENT_LLM_KEY, resp)} :
       LET valid == IF IsDict(g) /\ Get(g, "found", FALSE)
                    THEN <<g>> ELSE valid_results
       IN  IF IsException(g)
           THEN Propagate(g) /\ UNCHANGED gemini_result
           ELSE /\ gemini_result' = g
                /\ IF valid = <<>> THEN Unresolved(calls) ELSE Select(valid, calls)
    /\ UNCHANGED <<EMERGENT_LLM_KEY, now, drug_name, use_ai_verification,
                   ingredients, slots, order, history, prev, adapter_call,
                   parse_call, server>>

\* the AI verifier returns; the answer is built
VerifyComplete(resp) ==
    /\ pc = "verify"
    /\ LET aiv == verify_with_gemini(EMERGENT_LLM_KEY, resp)
       IN  IF IsException(aiv)
           THEN Propagate(aiv)
           ELSE /\ ai_verification' = aiv
                /\ response' = BuildResponse(ingredients, valid_results, aiv,
                                             ingredients[1].language, now)
                /\ pc' = "done"
                /\ inflight' = {}
                /\ UNCHANGED <<valid_results, calls>>
    /\ UNCHANGED <<EMERGENT_LLM_KEY, now, drug_name, use_ai_verification,
                   ingredients, slots, order, gemini_result, history, prev,
                   adapter_call,
                   parse_call, server>>

\* the caller receives the answer, or the exception
Return ==
    /\ pc \in {"done", "raised"}
    /\ prev' = IF history
               THEN [called |-> TRUE, ingredients |-> ingredients,
                     response |-> response, returned_at |-> now]
               ELSE prev
    /\ pc' = "idle"
    /\ drug_name' = <<>>
    /\ use_ai_verification' = FALSE
    /\ ingredients' = <<>>
    /\ slots' = <<>>
    /\ order' = <<>>
    /\ inflight' = {}
    /\ valid_results' = <<>>
    /\ gemini_result' = None
    /\ ai_verification' = None
    /\ response' = None
    /\ calls' = NoCalls
    /\ UNCHANGED <<EMERGENT_LLM_KEY, now, history, adapter_call,
                   parse_call, server>>

\* datetime.isoformat(): the time as a text, not a date value
isoformat(t) == [iso |-> t]

\* the TTL monitor of the database removes the documents whose indexed field
\* is a date value in the past; a document whose field is not a date value
\* (a text, for one) is never removed
TTLMonitor(collection, t) ==
    SelectSeq(collection,
              LAMBDA d : ~("date" \in DOMAIN d.expires_at /\ d.expires_at.date <= t))

\* time passes between two calls; the database's TTL monitor has run
Tick ==
    /\ pc = "idle"
    /\ now + TickHours <= MaxTime
    /\ now' = now + TickHours
    /\ interaction_cache' = TTLMonitor(interaction_cache, now')
    /\ UNCHANGED <<EMERGENT_LLM_KEY, pc, drug_name, use_ai_verification,
                   ingredients, slots, order, inflight, valid_results,
                   gemini_result, ai_verification, response, calls, history, prev,
                   adapter_call, parse_call, OPENAI_API_KEY, handlers,
                   dosage_request, key_call>>

\* the names the callers of this run send
CallNames == IF history THEN RepeatNames ELSE DrugNames

Next ==
    \/ \E name \in CallNames, use_ai \in BOOLEAN : Call(name, use_ai)
    \/ \E i \in 1..Len(Tasks) : \E resp \in TaskResponses(Tasks[i]) : TaskComplete(i, resp)
    \/ Join
    \/ \E resp \in GeminiResponses : GeminiComplete(resp)
    \/ \E resp \in VerifyResponses : VerifyComplete(resp)
    \/ Return
    \/ Tick

Spec == Init /\ [][Next]_vars

SpecRepeat == InitRepeat /\ [][Next]_vars

\* every awaited request ends: its client has a timeout, after which the
\* adapter returns; the event loop resumes get_dosage_info when the awaited
\* calls are over, and the caller when it returns
Fairness ==
    /\ \A i \in 1..Len(Tasks) :
          WF_vars(\E resp \in TaskResponses(Tasks[i]) : TaskComplete(i, resp))
    /\ WF_vars(Join)
    /\ WF_vars(\E resp \in GeminiResponses : GeminiComplete(resp))
    /\ WF_vars(\E resp \in VerifyResponses : VerifyComplete(resp))
    /\ WF_vars(Return)

SpecFair == Init /\ [][Next]_vars /\ Fairness

(* ------------------------------------------------------------------ *)
(* The adapters on their own                                           *)
(* ------------------------------------------------------------------ *)

\* the drug names whose ingredients the adapters are given
AdapterNames == {NameAspirin, NameCombo}

\* the calls of one adapter function: the ingredients of a drug name and the
\* response the remote service gives
AdapterCalls ==
    {[fn |-> "search_fda_api", ingredients |-> parse_drug_name(n), resp |-> r,
      result |-> Pending] : n \in AdapterNames, r \in FdaCases}
    \cup {[fn |-> "search_rxnorm_api", ingredients |-> parse_drug_name(n), resp |-> r,
           result |-> Pending] : n \in AdapterNames, r \in RxNormCases}
    \cup {[fn |-> "search_dailymed_api", ingredients |-> parse_drug_name(n),
           resp |-> r, result |-> Pending] : n \in AdapterNames, r \in DailyMedCases}
    \cup {[fn |-> "search_google_gemini", ingredients |-> parse_drug_name(n),
           resp |-> r, result |-> Pending] : n \in AdapterNames, r \in GeminiCases}
    \cup {[fn |-> "verify_with_gemini", ingredients |-> parse_drug_name(NameAspirin),
           resp |-> r, result |-> Pending] : r \in VerifyCases}

InitAdapters ==
    InitCall /\ history = FALSE /\ adapter_call \in AdapterCalls
             /\ parse_call = NoParseCall /\ NoServerCall

orchestrator == <<EMERGENT_LLM_KEY, now, pc, drug_name, use_ai_verification,
                  ingredients, slots, order, inflight, valid_results, gemini_result,
                  ai_verification, response, calls, history, prev>>

\* the awaited adapter runs to its return
Returns(fn, result) ==
    /\ adapter_call.fn = fn
    /\ adapter_call.result = Pending
    /\ adapter_call' = [adapter_call EXCEPT !.result = result]
    /\ UNCHANGED <<orchestrator, parse_call, server>>

RunFda == Returns("search_fda_api",
                  search_fda_api(adapter_call.ingredients, adapter_call.resp))

RunRxNorm == Returns("search_rxnorm_api",
                     search_rxnorm_api(adapter_call.ingredients, adapter_call.resp))

RunDailyMed == Returns("search_dailymed_api",
                       search_dailymed_api(adapter_call.ingredients, adapter_call.resp))

RunGemini == Returns("search_google_gemini",
                     search_google_gemini(adapter_call.ingredients, EMERGENT_LLM_KEY,
                                          adapter_call.resp))

RunVerify == Returns("verify_with_gemini",
                     verify_with_gemini(EMERGENT_LLM_KEY, adapter_call.resp))

NextAdapters == RunFda \/ RunRxNorm \/ RunDailyMed \/ RunGemini \/ RunVerify

SpecAdapters == InitAdapters /\ [][NextAdapters]_vars

(* ------------------------------------------------------------------ *)
(* The parser on its own                                               *)
(* ------------------------------------------------------------------ *)

\* the pieces the drug names are written from
WrittenNames ==
    {<<"A", "s", "p", "i", "r", "i", "n">>, <<"c", "a", "f", "f", "e", "i", "n", "e">>, <<"A", "S", "A">>, <<"V", "i", "t", "a", "m", "i", "n", " ", "C">>,
     <<"ALEF", "SEEN", "BEH", "REH", "YEH", "NOON">>,
     <<"KAF", "ALEF", "FEH", "YEH", "YEH", "NOON">>,
     <<"BEH", "REH", "YEH", "NOON">>}

WrittenStrengths == {<<"5", "0", "0">>, <<"6", "5">>, <<"2", ".", "5">>}

WrittenUnits ==
    {<<"m", "g">>, <<"M", "G">>, <<"g">>, <<"m", "l">>, <<"m", "c", "g">>, <<"%">>,
     <<"M", "c", "g">>, <<"MEEM", "JEEM", "MEEM">>, <<"JEEM", "MEEM">>}

WrittenGaps == {<<>>, <<" ">>}

WrittenSeparators == {<<" ", "+", " ">>, <<"/">>, <<",", " ">>}

\* a segment as it is written: a name alone, or a name, a blank, a number,
\* an optional blank and a unit
BareSegments ==
    {[name |-> n, strength |-> NoneStr, gap |-> <<>>, unit |-> NoneStr] :
        n \in WrittenNames}

DosedSegments ==
    {[name |-> n, strength |-> s, gap |-> g, unit |-> u] :
        n \in WrittenNames, s \in WrittenStrengths, g \in WrittenGaps,
        u \in WrittenUnits}

SegmentText(seg) ==
    IF seg.strength = NoneStr THEN seg.name
    ELSE seg.name \o <<" ">> \o seg.strength \o seg.gap \o seg.unit

\* the segments that drug names of several segments are written from
JoinedSegments ==
    {seg \in BareSegments \cup DosedSegments :
        /\ seg.name \in {<<"A", "s", "p", "i", "r", "i", "n">>, <<"c", "a", "f", "f", "e", "i", "n", "e">>,
                         <<"KAF", "ALEF", "FEH", "YEH", "YEH", "NOON">>}
        /\ seg.strength \in {NoneStr, <<"6", "5">>}
        /\ seg.gap = <<>>
        /\ seg.unit \in {NoneStr, <<"m", "g">>, <<"JEEM", "MEEM">>}}

\* the text of a name written as segments segs joined by separators seps
RECURSIVE JoinText(_, _)
JoinText(segs, seps) ==
    IF Len(segs) = 1 THEN SegmentText(segs[1])
    ELSE SegmentText(segs[1]) \o seps[1] \o JoinText(Tail(segs), Tail(seps))

\* drug names given as plain text
PlainTexts ==
    {<<>>, <<" ">>, <<" ", " ", "A", "s", "p", "i", "r", "i", "n", " ", " ">>, <<"5", "0", "0", "m", "g">>, <<"A", "s", "p", "i", "r", "i", "n", " ", "5", "0", "0">>, <<"A", "s", "p", "i", "r", "i", "n", " ", "m", "g">>, <<"A", "s", "p", "i", "r", "i", "n", "5", "0", "0", "m", "g">>,
     <<"A", "S", "A", " ", "BEH", "REH", "YEH", "NOON">>}

\* the drug names parse_drug_name is given: how each was written (its
\* segments and separators, none for a plain text) and its text
ParseCalls ==
    {[segments |-> <<seg>>, separators |-> <<>>, text |-> SegmentText(seg),
      returned |-> FALSE,
      result |-> <<>>] : seg \in BareSegments \cup DosedSegments}
    \cup {[segments |-> <<a, b>>, separators |-> <<sep>>,
           text |-> JoinText(<<a, b>>, <<sep>>), returned |-> FALSE,
      result |-> <<>>] :
             a \in JoinedSegments, b \in JoinedSegments, sep \in WrittenSeparators}
    \cup {[segments |-> <<a, b, a>>, separators |-> <<sep, <<"/">> >>,
           text |-> JoinText(<<a, b, a>>, <<sep, <<"/">> >>), returned |-> FALSE,
      result |-> <<>>] :
             a \in JoinedSegments, b \in JoinedSegments, sep \in {<<" ", "+", " ">>}}
    \cup {[segments |-> <<>>, separators |-> <<>>, text |-> t, returned |-> FALSE,
      result |-> <<>>] :
             t \in PlainTexts}

InitParse ==
    InitCall /\ history = FALSE /\ adapter_call = NoAdapterCall
             /\ parse_call \in ParseCalls /\ NoServerCall

\* parse_drug_name runs to its return
RunParse ==
    /\ ~parse_call.returned
    /\ parse_call' = [parse_call EXCEPT !.returned = TRUE,
                                        !.result = parse_drug_name(parse_call.text)]
    /\ UNCHANGED <<orchestrator, adapter_call, server>>

NextParse == RunParse

SpecParse == InitParse /\ [][NextParse]_vars

(* ------------------------------------------------------------------ *)
(* server.py: check_drug_interactions and its cache                    *)
(* ------------------------------------------------------------------ *)

\* x or y, on strings: the empty string and None are false
Or(x, y) == IF x = NoneStr \/ x = <<>> THEN y ELSE x

\* the characters of medication names, in code point order
CodePoints == <<" ">> \o UpperLetters \o LowerLetters

Code(c) == CHOOSE i \in 1..Len(CodePoints) : CodePoints[i] = c

\* a < b on strings
RECURSIVE StrLess(_, _)
StrLess(a, b) ==
    IF b = <<>> THEN FALSE
    ELSE IF a = <<>> THEN TRUE
    ELSE IF a[1] = b[1] THEN StrLess(Tail(a), Tail(b))
    ELSE Code(a[1]) < Code(b[1])

\* the sort key of a medication: lower-cased active ingredient, then
\* lower-cased brand name (or name)
SortKey(m) ==
    <<Lower(Or(Get(m, "active_ingredient", NoneStr), <<>>)),
      Lower(Or(Or(Get(m, "brand_name", NoneStr), Get(m, "name", NoneStr)), <<>>))>>

\* k1 < k2 on the key tuples
KeyLess(k1, k2) ==
    \/ StrLess(k1[1], k2[1])
    \/ k1[1] = k2[1] /\ StrLess(k1[2], k2[2])

\* sorted(medications, key=...): stable, ascending
RECURSIVE sorted(_)
sorted(medications) ==
    IF medications = <<>> THEN <<>>
    ELSE LET n  == Len(medications)
             s  == sorted(SubSeq(medications, 1, n - 1))
             x  == medications[n]
             gt == {i \in 1..Len(s) : KeyLess(SortKey(x), SortKey(s[i]))}
             p  == IF gt = {} THEN Len(s) + 1
                   ELSE CHOOSE i \in gt : \A j \in gt : i <= j
         IN  SubSeq(s, 1, p - 1) \o <<x>> \o SubSeq(s, p, Len(s))

\* f"{active_ing}|{brand}" with both parts stripped and lower-cased
CacheKeyData(med) ==
    Lower(Strip(Or(Get(med, "active_ingredient", NoneStr), <<>>)))
    \o <<"|">>
    \o Lower(Strip(Or(Or(Get(med, "brand_name", NoneStr), Get(med, "name", NoneStr)),
                      <<>>)))

\* '-'.join(parts)
RECURSIVE JoinDash(_)
JoinDash(parts) ==
    IF parts = <<>> THEN <<>>
    ELSE IF Len(parts) = 1 THEN parts[1]
    ELSE parts[1] \o <<"-">> \o JoinDash(Tail(parts))

\* hashlib.md5(text).hexdigest(): equal for equal texts, taken as different
\* for different texts
md5(text) == [md5 |-> text]

\* the cache key of a request's medications
CacheKey(medications) ==
    LET medications_sorted == sorted(medications)
    IN  md5(JoinDash([i \in 1..Len(medications_sorted) |->
                         CacheKeyData(medications_sorted[i])]))

\* the cache document built from a result at time t
CacheDoc(cache_key, result, t) ==
    [cache_key |-> cache_key, cached_at |-> isoformat(t),
     expires_at |-> isoformat(t + TTLHours)] @@ result

\* insert_one: the document is appended under an _id of its own
insert_one(collection, doc) ==
    Append(collection, [_id |-> Len(collection) + 1] @@ doc)

\* find_one({"cache_key": key}): the first matching document, or None
find_one(collection, cache_key) ==
    LET hits == {i \in 1..Len(collection) : collection[i].cache_key = cache_key}
    IN  IF hits = {} THEN None
        ELSE collection[CHOOSE i \in hits : \A j \in hits : i <= j]

\* dict.pop(k, None) for each k of ks
Without(d, ks) == [k \in DOMAIN d \ ks |-> d[k]]

NoMedsMessage(language) ==
    IF language = "ar" THEN ArText("please add at least two medications")
    ELSE EnText("Please add at least 2 medications to check")

\* the exceptions of the handlers, by type
Exception(type) == [exception |-> TRUE, type |-> type]

\* raise HTTPException(status_code=status, detail=detail)
HTTPException(status, detail) ==
    [exception |-> TRUE, type |-> "HTTPException", status_code |-> status,
     detail |-> detail]

\* the answer FastAPI gives for a returned value
Ok(body) == [status |-> 200, body |-> body]

\* except Exception as e: raise HTTPException(status_code=500, detail=str(e))
\* (HTTPException is an Exception too)
Caught(e) == [status |-> 500, detail |-> e]

\* what client.chat.completions.create answers
ChatCompletion(contents) ==
    [type |-> "ChatCompletion",
     choices |-> [i \in 1..Len(contents) |-> [message |-> [content |-> contents[i]]]]]

JsonAnswer == <<"{", "i", "}">>
ProseAnswer == <<"n", "o">>

ChatResponses ==
    {Exception("APIError"), ChatCompletion(<<>>), ChatCompletion(<<JsonAnswer>>),
     ChatCompletion(<<ProseAnswer>>)}

\* a text as a Python value
str(text) == [type |-> "str", value |-> text]

\* obj.find(c): str.find on a text; any other object has no attribute find
find(obj, c) ==
    IF obj.type = "str"
    THEN LET ps == {i \in 1..Len(obj.value) : obj.value[i] = c}
         IN  IF ps = {} THEN -1 ELSE (CHOOSE i \in ps : \A j \in ps : i <= j) - 1
    ELSE Exception("AttributeError")

\* obj.rfind(c)
rfind(obj, c) ==
    IF obj.type = "str"
    THEN LET ps == {i \in 1..Len(obj.value) : obj.value[i] = c}
         IN  IF ps = {} THEN -1 ELSE (CHOOSE i \in ps : \A j \in ps : i >= j) - 1
    ELSE Exception("AttributeError")

NoInteractions ==
    [has_interactions |-> FALSE, total_interactions |-> 0, interactions |-> <<>>]

\* json.loads of the answers above
loads(text) ==
    IF text = JsonAnswer
    THEN [has_interactions |-> TRUE, total_interactions |-> 1,
          interactions |-> <<"i">>]
    ELSE NoInteractions

\* the result with its metadata
Result(interaction_data, medications_sorted, t) ==
    interaction_data @@
    [checked_date |-> t, medications_checked |-> Len(medications_sorted)]

\* the medications of the requests
MedA == [active_ingredient |-> <<"a">>]
MedB == [active_ingredient |-> <<"b">>]
MedC == [active_ingredient |-> <<"c">>, brand_name |-> <<"X">>]

MedicationLists ==
    {<<>>, <<MedA>>, <<MedA, MedB>>, <<MedB, MedA>>, <<MedA, MedC>>}

Requests ==
    {[medications |-> l, language |-> "en"] : l \in MedicationLists}
    \cup {[language |-> "ar"], [medications |-> <<MedA, MedB>>]}

\* the collections the server may find at its start: empty, or holding one
\* document stored for two medications StoredAge hours before
StoredMedications == <<MedA, MedB>>

StoredResult(t) ==
    Result([has_interactions |-> TRUE, total_interactions |-> 1,
            interactions |-> <<"i">>], StoredMedications, t)

StoredCollections ==
    {<<>>}
    \cup {insert_one(<<>>, CacheDoc(CacheKey(StoredMedications), StoredResult(0 - age),
                                    0 - age)) : age \in {0, TickHours}}

\* the handler of worker w ends with the answer r
Responds(w, r) ==
    handlers' = [handlers EXCEPT ![w] = [@ EXCEPT !.pc = "responded"] @@ r]

\* lines 1284-1311: the request arrives; the cache key is built and the
\* cache is asked
Receive(w, request) ==
    /\ handlers[w].pc \in {"idle", "responded"}
    /\ LET medications == Get(request, "medications", <<>>)
           language    == Get(request, "language", "en")
       IN  IF Len(medications) < 2
           THEN handlers' = [handlers EXCEPT ![w] =
                    [pc |-> "responded", request |-> request] @@
                    Ok([has_interactions |-> FALSE, details |-> NoMedsMessage(language)])]
           ELSE handlers' = [handlers EXCEPT ![w] =
                    [pc |-> "find_one", request |-> request,
                     medications_sorted |-> sorted(medications),
                     cache_key |-> CacheKey(medications)]]
    /\ UNCHANGED <<orchestrator, adapter_call, parse_call, OPENAI_API_KEY,
                   interaction_cache, dosage_request, key_call>>

\* lines 1311-1380: the cache answers; a hit is returned, a miss goes to the
\* model
FindOneReturns(w, failed) ==
    /\ handlers[w].pc = "find_one"
    /\ LET cached_result == find_one(interaction_cache, handlers[w].cache_key)
           api_key == IF EMERGENT_LLM_KEY # "" THEN EMERGENT_LLM_KEY
                      ELSE OPENAI_API_KEY
       IN  IF failed
           THEN Responds(w, Caught(Exception("PyMongoError")))
           ELSE IF cached_result # None
           THEN Responds(w, Ok(Without(cached_result,
                                       {"_id", "cache_key", "cached_at"})))
           ELSE IF api_key = ""
           THEN Responds(w, Caught(HTTPException(500, "OpenAI API key not configured")))
           ELSE handlers' = [handlers EXCEPT ![w].pc = "create"]
    /\ UNCHANGED <<orchestrator, adapter_call, parse_call, OPENAI_API_KEY,
                   interaction_cache, dosage_request, key_call>>

\* lines 1368-1433: the model answers; the answer is parsed, stored and
\* returned
CreateReturns(w, completion) ==
    /\ handlers[w].pc = "create"
    /\ IF IsException(completion)
       THEN Responds(w, Caught(completion)) /\ UNCHANGED interaction_cache
       ELSE IF completion.choices = <<>>
       THEN Responds(w, Caught(Exception("IndexError"))) /\ UNCHANGED interaction_cache
       ELSE LET response_text == str(completion.choices[1].message.content)
                \* line 1388 asks the completion object, not response_text
                json_start == find(completion, "{")
            IN  IF IsException(json_start)
                THEN Responds(w, Caught(json_start)) /\ UNCHANGED interaction_cache
                ELSE \* lines 1389-1427, for a response that has find and rfind
                     LET json_end == rfind(completion, "}") + 1
                         interaction_data ==
                             IF json_start >= 0 /\ json_end > json_start
                             THEN loads(Slice(completion.value, json_start + 1, json_end))
                             ELSE NoInteractions
                         result == Result(interaction_data,
                                          handlers[w].medications_sorted, now)
                     IN  /\ interaction_cache' =
                               insert_one(interaction_cache,
                                          CacheDoc(handlers[w].cache_key, result, now))
                         /\ Responds(w, Ok(result))
    /\ UNCHANGED <<orchestrator, adapter_call, parse_call, OPENAI_API_KEY,
                   dosage_request, key_call>>

InitInteractions ==
    /\ InitCall /\ history = FALSE
    /\ adapter_call = NoAdapterCall /\ parse_call = NoParseCall
    /\ OPENAI_API_KEY \in KeyValues
    /\ interaction_cache \in StoredCollections
    /\ handlers = [w \in Workers |-> NoHandler]
    /\ dosage_request = NoDosageRequest
    /\ key_call = NoKeyCall

NextInteractions ==
    \/ \E w \in Workers, request \in Requests : Receive(w, request)
    \/ \E w \in Workers, failed \in BOOLEAN : FindOneReturns(w, failed)
    \/ \E w \in Workers, completion \in ChatResponses : CreateReturns(w, completion)
    \/ Tick

SpecInteractions == InitInteractions /\ [][NextInteractions]_vars

(* ------------------------------------------------------------------ *)
(* The cache key on its own                                            *)
(* ------------------------------------------------------------------ *)

\* the medications the keys are built from
KeyedMedications ==
    {[active_ingredient |-> a] : a \in {<<"a">>, <<"A">>, <<" ", "b">>, <<"b">>}}
    \cup {[active_ingredient |-> <<"b", " ">>, name |-> <<"X">>],
          [brand_name |-> <<"x">>]}

KeyedLists ==
    {<<m, n>> : m \in KeyedMedications, n \in KeyedMedications}
    \cup {<<m, n, MedC>> : m \in KeyedMedications, n \in KeyedMedications}

\* two requests, each with its medications
KeyCalls ==
    {[first |-> l, second |-> m, returned |-> FALSE, keys |-> <<>>] :
        l \in KeyedLists, m \in KeyedLists}

InitCacheKey ==
    /\ InitCall /\ history = FALSE
    /\ adapter_call = NoAdapterCall /\ parse_call = NoParseCall
    /\ OPENAI_API_KEY = ""
    /\ interaction_cache = <<>>
    /\ handlers = [w \in Workers |-> NoHandler]
    /\ dosage_request = NoDosageRequest
    /\ key_call \in KeyCalls

\* lines 1292-1308 run for each of the two requests
RunCacheKey ==
    /\ ~key_call.returned
    /\ key_call' = [key_call EXCEPT !.returned = TRUE,
                                    !.keys = <<CacheKey(key_call.first),
                                               CacheKey(key_call.second)>>]
    /\ UNCHANGED <<orchestrator, adapter_call, parse_call, OPENAI_API_KEY,
                   interaction_cache, handlers, dosage_request>>

NextCacheKey == RunCacheKey

SpecCacheKey == InitCacheKey /\ [][NextCacheKey]_vars

(* ------------------------------------------------------------------ *)
(* server.py: the endpoint /medications/dosage-info                    *)
(* ------------------------------------------------------------------ *)

\* Python values of the request body
NoneValue == [type |-> "NoneType"]
\* a number, by its digits
int_(digits) == [type |-> "int", value |-> digits]

\* bool(v)
Truthy(v) ==
    CASE v.type = "NoneType" -> FALSE
      [] v.type = "str" -> v.value # <<>>
      [] v.type = "int" -> v.value # <<"0">>

\* the request bodies
DosageRequests ==
    {Empty, [drug_name |-> NoneValue], [drug_name |-> str(<<>>)],
     [drug_name |-> int_(<<"5", "0", "0">>)], [use_ai_verification |-> FALSE],
     [drug_name |-> str(NameAspirin)],
     [drug_name |-> str(NameAspirin), use_ai_verification |-> FALSE],
     [drug_name |-> str(NameArabic)]}

\* lines 4294-4302: the request arrives; the dosage service is called unless
\* drug_name is missing or empty
ReceiveDosage(request) ==
    /\ dosage_request.pc = "idle"
    /\ pc = "idle"
    /\ LET name   == Get(request, "drug_name", NoneValue)
           use_ai == Get(request, "use_ai_verification", TRUE)
       IN  IF ~Truthy(name)
           THEN dosage_request' =
                   [pc |-> "responded", request |-> request, called |-> FALSE] @@
                   Caught(HTTPException(400, "drug_name is required"))
           ELSE IF name.type # "str"
           THEN \* parse_drug_name hands the value to re: TypeError
                dosage_request' =
                   [pc |-> "responded", request |-> request, called |-> TRUE] @@
                   Caught(Exception("TypeError"))
           ELSE dosage_request' =
                   [pc |-> "calling", request |-> request, called |-> TRUE,
                    drug_name |-> name.value, use_ai |-> use_ai]
    /\ UNCHANGED <<orchestrator, adapter_call, parse_call, OPENAI_API_KEY,
                   interaction_cache, handlers, key_call>>

\* line 4302: get_dosage_info starts
CallDosageService ==
    /\ dosage_request.pc = "calling"
    /\ Call(dosage_request.drug_name, dosage_request.use_ai)

\* lines 4302-4307: get_dosage_info is over; its value is returned, its
\* exception answered with status 500
RespondDosage ==
    /\ dosage_request.pc = "calling"
    /\ pc \in {"done", "raised"}
    /\ dosage_request' =
          [dosage_request EXCEPT !.pc = "responded"] @@
          (IF pc = "raised" THEN Caught(response) ELSE Ok(response))
    /\ UNCHANGED <<orchestrator, adapter_call, parse_call, OPENAI_API_KEY,
                   interaction_cache, handlers, key_call>>

NextEndpoint ==
    \/ \E request \in DosageRequests : ReceiveDosage(request)
    \/ CallDosageService
    \/ \E i \in 1..Len(Tasks) : \E resp \in TaskResponses(Tasks[i]) : TaskComplete(i, resp)
    \/ Join
    \/ \E resp \in GeminiResponses : GeminiComplete(resp)
    \/ \E resp \in VerifyResponses : VerifyComplete(resp)
    \/ RespondDosage

SpecEndpoint == Init /\ [][NextEndpoint]_vars

(* ------------------------------------------------------------------ *)
(* Properties                                                          *)
(* ------------------------------------------------------------------ *)

AuthorityFunctions == {"search_fda_api", "search_rxnorm_api", "search_dailymed_api"}

\* the source name each adapter function signs its results with
SourceOf(f) ==
    CASE f = "search_fda_api" -> FDA
      [] f = "search_rxnorm_api" -> RXNORM
      [] f = "search_dailymed_api" -> DAILYMED
      [] OTHER -> GEMINI

IsFound(r) == r # Pending /\ IsDict(r) /\ Get(r, "found", FALSE)

\* the slots of the authority adapters that returned found=true
AuthorityFound == {i \in DOMAIN slots : IsFound(slots[i])}

NoneReturned == \A i \in DOMAIN slots : slots[i] = None

Finished == pc = "done"
Resolved == pc = "done" /\ response.found
NotResolved == pc = "done" /\ ~response.found

StructuredFields == {"dosage_form", "common_use", "dosage", "administration_method",
                     "treatment_duration", "warnings"}

FieldDefault(f) ==
    CASE f = "dosage_form" -> Unknown
      [] f = "dosage" -> SeePrescribing
      [] OTHER -> <<>>

\* the members of a set of slots, in priority (task) order
RECURSIVE InOrder(_)
InOrder(S) ==
    IF S = {} THEN <<>>
    ELSE LET m == CHOOSE x \in S : \A y \in S : x <= y
         IN  <<m>> \o InOrder(S \ {m})

\* case-folded name, strength and unit of each ingredient, in order
Signature(ings) ==
    [i \in 1..Len(ings) |->
        <<Lower(ings[i].ingredient), ings[i].strength, Lower(ings[i].unit)>>]

\* the call in progress repeats the previous one: same signature, within the
\* TTL window, and the previous call returned a result
Repeated ==
    /\ prev.called
    /\ pc # "idle"
    /\ Signature(ingredients) = Signature(prev.ingredients)
    /\ now - prev.returned_at < TTLHours
    /\ prev.response.found

\* C1 as stated: a repeated call invokes no authority adapter, no AI fallback
\* and no verifier, and returns the answer of the first call.
C1_SecondCallServedFromCache ==
    (Finished /\ Repeated) =>
        /\ \A f \in Functions : calls[f] = 0
        /\ response = prev.response

\* C1 amended: get_dosage_info keeps no cache.  A repeated call invokes each of
\* the three authority adapters exactly once again, and its answer is decided
\* by the outcomes of its own adapter calls, not by the earlier answer.
C1_RepeatedCallQueriesAgain ==
    (Finished /\ Repeated) =>
        /\ \A f \in AuthorityFunctions : calls[f] = 1
        /\ response.found <=> (AuthorityFound # {} \/ IsDict(gemini_result))

C1_Witness ==
    Finished /\ Repeated /\ response # prev.response /\ ~response.found

\* C2: for an authority-sourced resolution the tier is 'high' iff at least two
\* authority adapters returned found=true and 'medium' iff exactly one did,
\* whatever the adapters' own confidence fields say.
C2_TierCountsAuthorities ==
    (Resolved /\ AuthorityFound # {}) =>
        /\ response.confidence = "high" <=> Cardinality(AuthorityFound) >= 2
        /\ response.confidence = "medium" <=> Cardinality(AuthorityFound) = 1

C2_Witness ==
    /\ Resolved
    /\ Cardinality(AuthorityFound) = 1
    /\ response.confidence = "medium"
    /\ \E i \in AuthorityFound : slots[i].confidence = "high"

\* C3: when all three authority adapters returned None and the AI fallback
\* returned a result, the answer is found, of tier 'low', with the AI source as
\* its only source; and the tier is 'low' only in that case.
C3_LowTierIffAiOnly ==
    /\ (Finished /\ NoneReturned /\ IsDict(gemini_result)) =>
          /\ response.found
          /\ response.confidence = "low"
          /\ response.sources = <<GEMINI>>
    /\ (Resolved /\ response.confidence = "low") =>
          /\ AuthorityFound = {}
          /\ IsDict(gemini_result)
          /\ response.sources = <<GEMINI>>

C3_Witness ==
    Resolved /\ NoneReturned /\ IsDict(gemini_result) /\ response.confidence = "low"

\* C4: an answer with found=false has no sources, no confidence tier, no AI
\* verification, and every structured field empty or absent.
C4_UnresolvedIsEmpty ==
    NotResolved =>
        /\ response.sources = <<>>
        /\ "confidence" \notin DOMAIN response
        /\ "ai_verified" \notin DOMAIN response
        /\ \A f \in StructuredFields : f \notin DOMAIN response \/ response[f] = <<>>

C4_Witness == NotResolved /\ NoneReturned /\ calls["search_google_gemini"] = 1

IsBilingual(msg) ==
    /\ \E i \in 1..Len(msg) : msg[i].lang = "ar"
    /\ \E i \in 1..Len(msg) : msg[i].lang = "en"

\* C5: when every authority adapter and the AI fallback return None, the answer
\* has found=false and a non-empty warning message holding both the Arabic and
\* the English text, whatever the language of the input.
C5_UnresolvedWarningBilingual ==
    (Finished /\ NoneReturned /\ gemini_result = None) =>
        /\ ~response.found
        /\ "warning_message" \in DOMAIN response
        /\ response.warning_message # <<>>
        /\ IsBilingual(response.warning_message)

\* C6: the AI fallback is invoked only after all three authority adapters have
\* completed without a found result, never while one of them is in flight, and
\* never when one of them returned found=true.
C6_FallbackOnlyAfterExhaustion ==
    /\ calls["search_google_gemini"] > 0 =>
          /\ \A i \in DOMAIN slots : slots[i] # Pending
          /\ AuthorityFound = {}
    /\ "search_google_gemini" \in inflight => inflight = {"search_google_gemini"}

C6_Witness == pc = "fallback" /\ "search_google_gemini" \in inflight

\* C7: filtering starts only when all three authority tasks have completed,
\* even if one already returned found=true; and a task that ends without a
\* result fills its own slot only, leaving its siblings in flight.
C7_WaitForAll ==
    [][ /\ (pc = "gather" /\ pc' # "gather") =>
              \A i \in 1..3 : i \in DOMAIN slots /\ slots[i] # Pending
        /\ \A i \in DOMAIN slots :
              (pc = "gather" /\ slots[i] = Pending /\ slots'[i] = None) =>
                 /\ pc' = "gather"
                 /\ \A j \in DOMAIN slots \ {i} : slots'[j] = slots[j]
                 /\ inflight' = inflight \ {Tasks[i]} ]_vars

C7_Witness ==
    /\ pc = "gather"
    /\ \E i, j, k \in DOMAIN slots :
          slots[i] = None /\ slots[j] = Pending /\ IsFound(slots[k])

\* C8: the best result is the found result of the first adapter in the order
\* FDA, RxNorm, DailyMed, whatever the order of completion; every structured
\* field of the answer comes from it (or is the default when it lacks the
\* field), never from a lower-priority source.
C8_PriorityPick ==
    (Resolved /\ AuthorityFound # {}) =>
        LET w == CHOOSE i \in AuthorityFound : \A j \in AuthorityFound : i <= j
        IN  /\ valid_results[1] = slots[w]
            /\ \A f \in StructuredFields :
                  response[f] = Get(slots[w], f, FieldDefault(f))

C8_Witness ==
    /\ Resolved
    /\ AuthorityFound = {2, 3}
    /\ order[1] = 3
    /\ response.dosage = SeePrescribing

\* C9: sources lists exactly the adapters of the filtered set in priority
\* order: every authority adapter that returned found=true, none that returned
\* None, the source of the best result first.
C9_SourcesAreFilteredSet ==
    (Resolved /\ AuthorityFound # {}) =>
        /\ response.sources =
              [k \in 1..Cardinality(AuthorityFound) |->
                  SourceOf(Tasks[InOrder(AuthorityFound)[k]])]
        /\ response.sources[1] = valid_results[1].source

C9_Witness ==
    Resolved /\ AuthorityFound = {1, 3} /\ response.sources = <<FDA, DAILYMED>>

\* C10: the verifier is invoked only if the best result is authority-sourced,
\* the caller asked for verification and a key is configured; never for an
\* AI-sourced best result and never on a path that ends with found=false.
C10_VerifierOnlyForAuthority ==
    /\ calls["verify_with_gemini"] > 0 =>
          /\ AuthorityFound # {}
          /\ valid_results[1].source # GEMINI
          /\ use_ai_verification
          /\ EMERGENT_LLM_KEY # ""
    /\ IsDict(gemini_result) => calls["verify_with_gemini"] = 0
    /\ NotResolved => calls["verify_with_gemini"] = 0

C10_Witness == pc = "verify" /\ calls["verify_with_gemini"] = 1

\* C11: the outcome of the verifier (verified or not, unparsable answer,
\* failed request) changes nothing but the ai_verified field: when the
\* verifier was invoked the answer is found, and its tier, its sources and
\* its structured fields are those the authority results alone determine;
\* the verifier's output is attached whatever its verified value.
C11_VerifierChangesNothing ==
    (Finished /\ calls["verify_with_gemini"] = 1) =>
        /\ AuthorityFound # {}
        /\ response.found
        /\ response.confidence =
              (IF Cardinality(AuthorityFound) >= 2 THEN "high" ELSE "medium")
        /\ response.sources =
              [k \in 1..Cardinality(AuthorityFound) |->
                  SourceOf(Tasks[InOrder(AuthorityFound)[k]])]
        /\ LET w == CHOOSE i \in AuthorityFound : \A j \in AuthorityFound : i <= j
           IN  \A f \in StructuredFields :
                  response[f] = Get(slots[w], f, FieldDefault(f))
        /\ IsDict(ai_verification)
        /\ response.ai_verified = ai_verification

C11_Witness ==
    /\ Resolved
    /\ calls["verify_with_gemini"] = 1
    /\ ~response.ai_verified.verified
    /\ response.ai_verified.reason = VerificationFailed
    /\ response.confidence = "high"

\* an adapter awaited on its own has returned (or raised)
Returned(fn) == adapter_call.fn = fn /\ adapter_call.result # Pending

\* the request was answered with status 200 and a completion text
Answered(resp) ==
    /\ resp.kind = "http"
    /\ resp.status = 200
    /\ ~IsMalformed(resp.body)
    /\ "candidates" \in DOMAIN resp.body
    /\ resp.body.candidates # Empty
    /\ "text" \in DOMAIN resp.body.candidates[1]

AnswerText(resp) == resp.body.candidates[1].text

\* the positions of the separator in a verifier answer
Bars(text) == {i \in 1..Len(text) : text[i] = "|"}

\* the text between the first and the second separator, without the white
\* space around it
ScorePart(text) ==
    LET b1 == CHOOSE i \in Bars(text) : \A j \in Bars(text) : i <= j
        rest == Bars(text) \ {b1}
        b2 == CHOOSE i \in rest : \A j \in rest : i <= j
    IN  Strip(Slice(text, b1 + 1, b2 - 1))

\* an optional sign followed by digits only, at least one
LooksInteger(s) ==
    \E k \in 0..1 :
        /\ k = 1 => (s # <<>> /\ s[1] \in {"+", "-"})
        /\ Len(s) > k
        /\ \A i \in (k + 1)..Len(s) : s[i] \in Digits

\* a verifier answer that is not of the form 'Yes/No|0-100|reason': fewer
\* than three parts, or a confidence that is no integer
Unparsable(text) ==
    Cardinality(Bars(text)) < 2 \/ ~LooksInteger(ScorePart(text))

\* C12: verify_with_gemini never raises; when the request fails, when the
\* status is not 200, and when the answer text has fewer than three parts or
\* a confidence that is no integer, it returns exactly
\* {verified: false, confidence: 0, reason: 'Verification failed'}.
C12_VerifierFailsClosed ==
    Returned("verify_with_gemini") =>
        /\ ~IsException(adapter_call.result)
        /\ (/\ EMERGENT_LLM_KEY # ""
            /\ \/ adapter_call.resp.kind = "exception"
               \/ adapter_call.resp.status # 200
               \/ /\ Answered(adapter_call.resp)
                  /\ Unparsable(AnswerText(adapter_call.resp)))
           => adapter_call.result =
                 [verified |-> FALSE, confidence |-> 0, reason |-> VerificationFailed]

C12_Witness ==
    /\ Returned("verify_with_gemini")
    /\ EMERGENT_LLM_KEY # ""
    /\ Answered(adapter_call.resp)
    /\ Cardinality(Bars(AnswerText(adapter_call.resp))) = 2
    /\ ~LooksInteger(ScorePart(AnswerText(adapter_call.resp)))
    /\ adapter_call.result.reason = VerificationFailed

\* C13: get_dosage_info never lets an exception escape: whatever the drug
\* name and whatever combination of failed requests, bad statuses and
\* unusable bodies the adapters and the verifier meet, the call ends with an
\* answer that has a found field, never with an exception.
C13_NoExceptionEscapes ==
    /\ pc # "raised"
    /\ \A i \in DOMAIN slots : ~IsException(slots[i])
    /\ Finished => (IsDict(response) /\ response.found \in BOOLEAN)

C13_Witness ==
    /\ Finished
    /\ NoneReturned
    /\ calls["search_google_gemini"] = 1
    /\ EMERGENT_LLM_KEY # ""
    /\ gemini_result = None
    /\ ~response.found

\* a request that gave no usable JSON body: it failed (network error,
\* timeout), its status is not 200, or its body is malformed
NoBody(r) == r.kind = "exception" \/ r.status # 200 \/ IsMalformed(r.body)

\* the response with which an authority adapter has nothing to return
NothingFound(fn, resp) ==
    CASE fn = "search_fda_api" ->
            NoBody(resp) \/ Get(resp.body, "results", Empty) = Empty
      [] fn = "search_dailymed_api" ->
            NoBody(resp) \/ Get(resp.body, "data", Empty) = Empty
      [] fn = "search_rxnorm_api" ->
            \/ NoBody(resp.search)
            \/ Get(Get(resp.search.body, "approximateGroup", Empty),
                   "candidate", Empty) = Empty
            \/ NoBody(resp.properties)

\* C14: each authority adapter returns None, and raises nothing, on a network
\* error or timeout, a status other than 200, a malformed body and an empty
\* result; every value it returns other than None has found = true.
C14_AuthorityAdaptersFailToNone ==
    (adapter_call.fn \in AuthorityFunctions /\ adapter_call.result # Pending) =>
        /\ ~IsException(adapter_call.result)
        /\ NothingFound(adapter_call.fn, adapter_call.resp) =>
              adapter_call.result = None
        /\ adapter_call.result # None =>
              (IsDict(adapter_call.result) /\ adapter_call.result.found = TRUE)

C14_Witness ==
    /\ Returned("search_fda_api")
    /\ adapter_call.resp.kind = "http"
    /\ adapter_call.resp.status = 200
    /\ IsMalformed(adapter_call.resp.body)
    /\ adapter_call.result = None

\* C15 as stated: the AI fallback adapter returns None only when the request
\* failed or the status is outside 2xx; every 2xx response gives a result,
\* and neither a missing key nor a 2xx body without the completion structure
\* gives None.
C15_NullOnlyOnTransportFailure ==
    Returned("search_google_gemini") =>
        /\ adapter_call.result = None =>
              \/ adapter_call.resp.kind = "exception"
              \/ adapter_call.resp.status \notin 200..299
        /\ (adapter_call.resp.kind = "http" /\ adapter_call.resp.status \in 200..299)
              => adapter_call.result # None

\* C15 amended: the AI fallback adapter returns None exactly when no key is
\* configured, the request failed, the status is not 200, or the 200 body
\* holds no completion text (it is not JSON or lacks the completion
\* structure); with a key and a 200 response holding a completion text it
\* returns a result with found = true.
C15_NullWithoutKeyOrCompletion ==
    Returned("search_google_gemini") =>
        /\ adapter_call.result = None <=>
              \/ EMERGENT_LLM_KEY = ""
              \/ adapter_call.resp.kind = "exception"
              \/ adapter_call.resp.status # 200
              \/ ~Answered(adapter_call.resp)
        /\ adapter_call.result # None =>
              (IsDict(adapter_call.result) /\ adapter_call.result.found = TRUE)

C15_Witness ==
    /\ Returned("search_google_gemini")
    /\ EMERGENT_LLM_KEY # ""
    /\ adapter_call.resp.kind = "http"
    /\ adapter_call.resp.status = 200
    /\ ~IsMalformed(adapter_call.resp.body)
    /\ ~Answered(adapter_call.resp)
    /\ adapter_call.result = None

\* the pattern of a labelled field matches somewhere in the answer text
Matched(text, f) ==
    CASE f = "dosage_form" -> LabelSearch(text, LabelForm, FALSE, TRUE, {}).ok
      [] f = "common_use" -> LabelSearch(text, LabelUse, FALSE, TRUE, {}).ok
      [] f = "dosage" ->
            LabelSearch(text, LabelDosage, TRUE, FALSE, {LabelAdministration}).ok
      [] f = "administration_method" ->
            LabelSearch(text, LabelAdministration, TRUE, FALSE, {LabelDuration}).ok
      [] f = "treatment_duration" ->
            LabelSearch(text, LabelDuration, TRUE, FALSE, {LabelWarnings}).ok
      [] f = "warnings" -> LabelSearch(text, LabelWarnings, TRUE, FALSE, {}).ok

\* the AI fallback adapter has parsed an answer text
Parsed ==
    /\ Returned("search_google_gemini")
    /\ EMERGENT_LLM_KEY # ""
    /\ Answered(adapter_call.resp)

\* C16 as stated: each of the six labelled fields whose label is not matched
\* in the answer text is the empty string in the result.
C16_UnmatchedFieldsEmpty ==
    Parsed =>
        \A f \in StructuredFields :
            ~Matched(AnswerText(adapter_call.resp), f) => adapter_call.result[f] = <<>>

\* C16 amended: of the six labelled fields, common use, administration,
\* duration and warnings are the empty string when their label is not
\* matched; an unmatched dosage form is 'Unknown', and an unmatched dosage is
\* the first 300 characters of the answer text.
C16_UnmatchedFieldDefaults ==
    Parsed =>
        \A f \in StructuredFields :
            ~Matched(AnswerText(adapter_call.resp), f) =>
                adapter_call.result[f] =
                    CASE f = "dosage_form" -> Unknown
                      [] f = "dosage" -> Take(AnswerText(adapter_call.resp), RawLimit)
                      [] OTHER -> <<>>

C16_Witness ==
    /\ Parsed
    /\ AnswerText(adapter_call.resp) # <<>>
    /\ \A f \in {"dosage_form", "dosage", "warnings"} :
          ~Matched(AnswerText(adapter_call.resp), f)
    /\ Matched(AnswerText(adapter_call.resp), "common_use")
    /\ adapter_call.result.dosage_form = Unknown
    /\ adapter_call.result.dosage = AnswerText(adapter_call.resp)
    /\ adapter_call.result.warnings = <<>>

\* C17: a 200 answer of the AI endpoint in which no label can be matched
\* still gives a result with found = true whose dosage is the answer text cut
\* to its first 300 characters; a 200 response with a malformed body makes an
\* authority adapter return None, which counts as not found.
C17_ParseFailurePerSourceKind ==
    /\ (Parsed /\ \A f \in StructuredFields : ~Matched(AnswerText(adapter_call.resp), f))
          => /\ IsFound(adapter_call.result)
             /\ adapter_call.result.dosage = Take(AnswerText(adapter_call.resp), RawLimit)
    /\ (/\ adapter_call.fn \in {"search_fda_api", "search_dailymed_api"}
        /\ adapter_call.result # Pending
        /\ adapter_call.resp.kind = "http"
        /\ adapter_call.resp.status = 200
        /\ IsMalformed(adapter_call.resp.body))
          => (adapter_call.result = None /\ ~IsFound(adapter_call.result))
    /\ (/\ Returned("search_rxnorm_api")
        /\ adapter_call.resp.search.kind = "http"
        /\ adapter_call.resp.search.status = 200
        /\ IsMalformed(adapter_call.resp.search.body))
          => (adapter_call.result = None /\ ~IsFound(adapter_call.result))

C17_Witness ==
    /\ Parsed
    /\ \A f \in StructuredFields : ~Matched(AnswerText(adapter_call.resp), f)
    /\ Len(AnswerText(adapter_call.resp)) > RawLimit
    /\ adapter_call.result.found
    /\ Len(adapter_call.result.dosage) = RawLimit

\* C18: every result the AI fallback adapter returns has confidence 'low' and
\* a non-empty note; an answer whose best result is AI-sourced carries that
\* note as ai_note, and an answer whose best result comes from an authority
\* adapter has no ai_note.
C18_AiResultsCarryDisclaimer ==
    /\ IsDict(gemini_result) =>
          (gemini_result.confidence = "low" /\ gemini_result.note # "")
    /\ (Resolved /\ valid_results[1].source = GEMINI) =>
          /\ "ai_note" \in DOMAIN response
          /\ response.ai_note = gemini_result.note
          /\ response.ai_note # ""
    /\ (Resolved /\ valid_results[1].source # GEMINI) =>
          "ai_note" \notin DOMAIN response

C18_Witness ==
    /\ Resolved
    /\ valid_results[1].source = GEMINI
    /\ response.ai_note = AiNoteText
    /\ response.confidence = "low"

\* while a call is in progress with at least one ingredient, every authority
\* adapter has been invoked once, the AI fallback and the verifier at most once
CallsOnce ==
    /\ (pc \in {"gather", "fallback", "verify", "done"} /\ ingredients # <<>>) =>
          \A f \in AuthorityFunctions : calls[f] = 1
    /\ calls["search_google_gemini"] <= 1
    /\ calls["verify_with_gemini"] <= 1

\* C19: there is no retry inside one call: each authority adapter is invoked
\* exactly once, the AI fallback at most once and the verifier at most once;
\* an authority call that ended without a result is not issued again (its
\* slot and its count stay as they are until the call returns), and neither
\* is an AI fallback call that returned None.
C19_NoRetry ==
    [][ /\ CallsOnce'
        /\ \A i \in DOMAIN slots :
              (slots[i] = None /\ pc' # "idle") =>
                 /\ slots'[i] = None
                 /\ calls'[Tasks[i]] = calls[Tasks[i]]
        /\ (pc = "fallback" /\ gemini_result' = None) =>
              (pc' = "done" /\ calls' = calls) ]_vars

C19_Witness ==
    /\ Finished
    /\ EMERGENT_LLM_KEY # ""
    /\ \E i \in DOMAIN slots : slots[i] = None /\ calls[Tasks[i]] = 1
    /\ calls["search_google_gemini"] = 1
    /\ gemini_result = None
    /\ calls["verify_with_gemini"] = 0

\* C20: every answer with found = true lists at least one ingredient, the
\* ingredients the name was parsed into; and a call whose parse gave no
\* ingredient ends at once with found = false and without any adapter or
\* verifier call, so that whenever an adapter was invoked the ingredient
\* list is not empty.
C20_FoundHasIngredients ==
    /\ Resolved =>
          (response.ingredients # <<>> /\ response.ingredients = ingredients)
    /\ (pc # "idle" /\ ingredients = <<>>) =>
          (Finished /\ ~response.found /\ calls = NoCalls)
    /\ (\E f \in Functions : calls[f] > 0) => ingredients # <<>>

C20_Witness ==
    /\ Resolved
    /\ Len(response.ingredients) = 2
    /\ response.ingredients = parse_drug_name(drug_name)
    /\ calls["search_fda_api"] = 1

\* the moves of get_dosage_info from one await to the next: the authorities
\* are queried, then either a result was found (verification or the answer)
\* or they are exhausted (the AI fallback or the answer), then the answer
StateOrder ==
    {<<"idle", "gather">>, <<"gather", "fallback">>, <<"gather", "verify">>,
     <<"gather", "done">>, <<"fallback", "done">>, <<"verify", "done">>,
     <<"done", "idle">>}

\* C21: when every adapter call ends, every call of get_dosage_info ends in
\* exactly one of the answers found = true and found = false, never in an
\* exception; it moves only forward through querying the authorities, then
\* (only when they gave nothing) the AI fallback, then the answer, and no
\* stage is entered a second time within a call.
C21_TerminatesInOrder ==
    /\ [][ /\ (pc' # pc) => <<pc, pc'>> \in StateOrder
           /\ (pc' = "fallback") => ValidResults(slots, order) = <<>>
           /\ (pc = "gather" /\ pc' \in {"verify", "done"} /\ EMERGENT_LLM_KEY # "") =>
                 ValidResults(slots, order) # <<>> ]_vars
    /\ [](pc # "raised")
    /\ [](Finished => (Resolved # NotResolved))
    /\ ((pc # "idle") ~> Finished)

C21_Witness ==
    /\ Finished
    /\ NotResolved
    /\ EMERGENT_LLM_KEY # ""
    /\ Len(order) = Len(Tasks)
    /\ calls["search_google_gemini"] = 1
    /\ calls["verify_with_gemini"] = 0

\* the plain texts in which the pattern of name, strength and unit is nowhere
\* to be recognised
UnrecognisedTexts ==
    {<<>>, <<" ">>, <<" ", " ", "A", "s", "p", "i", "r", "i", "n", " ", " ">>,
     <<"A", "s", "p", "i", "r", "i", "n", " ", "5", "0", "0">>,
     <<"A", "s", "p", "i", "r", "i", "n", " ", "m", "g">>,
     <<"A", "S", "A", " ", "BEH", "REH", "YEH", "NOON">>}

\* the name was written without any strength and unit
Unrecognised ==
    IF parse_call.segments = <<>> THEN parse_call.text \in UnrecognisedTexts
    ELSE \A i \in DOMAIN parse_call.segments :
            parse_call.segments[i].strength = NoneStr

\* the name was written as one segment
OneSegment ==
    \A i \in DOMAIN parse_call.text : parse_call.text[i] \notin Separators

\* a written term as the lookups know it: the English key of a mapped Arabic
\* term; in a text with Arabic characters the Latin letters in lower case
EnglishKey(t) ==
    CASE t = <<"ALEF", "SEEN", "BEH", "REH", "YEH", "NOON">> ->
            <<"a", "s", "p", "i", "r", "i", "n">>
      [] t = <<"KAF", "ALEF", "FEH", "YEH", "YEH", "NOON">> ->
            <<"c", "a", "f", "f", "e", "i", "n", "e">>
      [] t = <<"A", "S", "A", " ", "BEH", "REH", "YEH", "NOON">> ->
            <<"a", "s", "a", " ", "BEH", "REH", "YEH", "NOON">>
      [] OTHER -> t

\* C22 as stated: a name in which no name/strength/unit pattern is recognised
\* is parsed into exactly one ingredient without strength and unit whose name
\* is the trimmed original string.
C22_UnparsableIsTrimmedOriginal ==
    (parse_call.returned /\ Unrecognised) =>
        /\ Len(parse_call.result) = 1
        /\ parse_call.result[1].strength = NoneStr
        /\ parse_call.result[1].unit = NoneStr
        /\ parse_call.result[1].ingredient = Strip(parse_call.text)

\* C22 amended: parse_drug_name returns a list for every string, and a name
\* without separator in which no name/strength/unit pattern is recognised is
\* parsed into exactly one ingredient without strength and unit whose name is
\* the trimmed original string, with, when the string holds an Arabic
\* character, its Latin letters in lower case and its mapped Arabic terms
\* replaced by their English keys.
C22_UnparsableSingleSegment ==
    /\ parse_call.returned => Len(parse_call.result) >= 1
    /\ (parse_call.returned /\ Unrecognised /\ OneSegment) =>
          /\ Len(parse_call.result) = 1
          /\ parse_call.result[1].strength = NoneStr
          /\ parse_call.result[1].unit = NoneStr
          /\ parse_call.result[1].ingredient = EnglishKey(Strip(parse_call.text))

C22_Witness ==
    /\ parse_call.returned
    /\ Unrecognised
    /\ OneSegment
    /\ parse_call.text # Strip(parse_call.text)
    /\ parse_call.result[1].ingredient = <<"A", "s", "p", "i", "r", "i", "n">>

\* the name was written as one segment with a number and a unit
OneDosedSegment ==
    /\ Len(parse_call.segments) = 1
    /\ parse_call.segments[1].strength # NoneStr

\* the symbol of a written unit
UnitSymbol(u) ==
    CASE u = <<"MEEM", "JEEM", "MEEM">> -> <<"m", "g">>
      [] u = <<"JEEM", "MEEM">> -> <<"g">>
      [] OTHER -> Lower(u)

\* C23: a name written as one segment '<Name> <number><unit>' is parsed into
\* exactly one ingredient whose name is the written name in lower case, whose
\* strength is the written number and whose unit is the lower-case symbol of
\* the written unit.
C23_SingleSegmentCaseFolded ==
    (parse_call.returned /\ OneDosedSegment) =>
        /\ Len(parse_call.result) = 1
        /\ parse_call.result[1].ingredient = Lower(EnglishKey(parse_call.segments[1].name))
        /\ parse_call.result[1].strength = parse_call.segments[1].strength
        /\ parse_call.result[1].unit = UnitSymbol(parse_call.segments[1].unit)

\* the name was written as segments joined by separators
Segmented == parse_call.segments # <<>>

\* C24: a name written as n segments joined by '+', '/' or ',' is parsed into
\* exactly n ingredients, the i-th from the i-th segment: it has the number
\* and the unit of that segment when the segment was written with a number
\* and a unit, and neither strength nor unit otherwise.
C24_OneIngredientPerSegment ==
    (parse_call.returned /\ Segmented) =>
        /\ Len(parse_call.result) = Len(parse_call.segments)
        /\ \A i \in DOMAIN parse_call.segments :
              LET seg == parse_call.segments[i]
                  ing == parse_call.result[i]
              IN  /\ Lower(ing.ingredient) = Lower(EnglishKey(seg.name))
                  /\ ing.strength = seg.strength
                  /\ ing.unit = IF seg.strength = NoneStr THEN NoneStr
                                ELSE UnitSymbol(seg.unit)

C24_Witness ==
    /\ parse_call.returned
    /\ Len(parse_call.segments) = 3
    /\ parse_call.separators = << <<" ", "+", " ">>, <<"/">> >>
    /\ parse_call.result[1].strength = <<"6", "5">>
    /\ parse_call.result[2].strength = NoneStr
    /\ parse_call.result[2].ingredient # parse_call.result[1].ingredient

\* the name holds a character of the Arabic block
HasArabic == \E i \in DOMAIN parse_call.text : parse_call.text[i] \in ArabicChars

MappedTerms ==
    {<<"ALEF", "SEEN", "BEH", "REH", "YEH", "NOON">>,
     <<"KAF", "ALEF", "FEH", "YEH", "YEH", "NOON">>}

\* C25: every ingredient parsed from a name with an Arabic character has
\* language 'ar' and carries the unmodified name as original_name; a term of
\* the Arabic-to-English map is replaced by its English key in the ingredient
\* name, the Arabic milligram token becomes the unit 'mg' and the Arabic gram
\* token 'g'; a name without Arabic character gives language 'en'.
C25_ArabicNormalised ==
    parse_call.returned =>
        /\ \A i \in DOMAIN parse_call.result :
              IF HasArabic
              THEN /\ parse_call.result[i].language = "ar"
                   /\ parse_call.result[i].original_name = parse_call.text
              ELSE parse_call.result[i].language = "en"
        /\ \A i \in DOMAIN parse_call.segments :
              LET seg == parse_call.segments[i]
                  ing == parse_call.result[i]
              IN  /\ (seg.name \in MappedTerms) =>
                        ing.ingredient = EnglishKey(seg.name)
                  /\ (seg.unit = <<"MEEM", "JEEM", "MEEM">>) => ing.unit = <<"m", "g">>
                  /\ (seg.unit = <<"JEEM", "MEEM">>) => ing.unit = <<"g">>

C25_Witness ==
    /\ parse_call.returned
    /\ parse_call.text = <<"ALEF", "SEEN", "BEH", "REH", "YEH", "NOON", " ", "5", "0", "0",
                           " ", "MEEM", "JEEM", "MEEM">>
    /\ parse_call.result[1].language = "ar"
    /\ parse_call.result[1].ingredient = <<"a", "s", "p", "i", "r", "i", "n">>
    /\ parse_call.result[1].unit = <<"m", "g">>

\* a medication with its texts trimmed and in lower case
Folded(med) == [k \in DOMAIN med |-> Lower(Strip(med[k]))]

\* the two lists differ at most in letter case and surrounding white space
SameButCaseAndSpace(l, m) ==
    /\ Len(l) = Len(m)
    /\ \A i \in DOMAIN l : Folded(l[i]) = Folded(m[i])

\* the two lists hold the same items in a different order
SameButOrder(l, m) ==
    /\ Len(l) = Len(m)
    /\ l # m
    /\ \E p \in [DOMAIN l -> DOMAIN l] :
          /\ \A i, j \in DOMAIN l : i # j => p[i] # p[j]
          /\ \A i \in DOMAIN l : m[i] = l[p[i]]

\* C26: the cache key is a case-folded signature that keeps the order of the
\* items: two requests whose lists differ only in letter case or surrounding
\* white space have the same key, and two requests whose lists hold the same
\* items in a different order have different keys.
C26_KeyFoldsCaseKeepsOrder ==
    key_call.returned =>
        /\ SameButCaseAndSpace(key_call.first, key_call.second) =>
              key_call.keys[1] = key_call.keys[2]
        /\ SameButOrder(key_call.first, key_call.second) =>
              key_call.keys[1] # key_call.keys[2]

\* worker w answers its request from the cache in this step
ServedFromCache(w) ==
    /\ handlers[w].pc = "find_one"
    /\ handlers'[w].pc = "responded"
    /\ handlers'[w].status = 200

ModelAnswers(w) ==
    /\ handlers[w].pc = "create"
    /\ handlers'[w].pc = "responded"

\* C29: when a request misses the cache and the call of the model succeeds,
\* the result is stored under the request's cache key and returned with
\* status 200, so that the next request with this key finds it in the cache.
C29_MissIsStoredAndReturned ==
    [][ \A w \in Workers :
           ModelAnswers(w) =>
              IF handlers'[w].status = 500
              THEN handlers'[w].detail.type \in {"APIError", "IndexError"}
              ELSE LET doc == find_one(interaction_cache', handlers[w].cache_key)
                   IN  /\ doc # None
                       /\ handlers'[w].body =
                             Without(doc, {"_id", "cache_key", "cached_at", "expires_at"}) ]_vars

\* the request came without a drug name, or with an empty one
NoDrugName ==
    ~Truthy(Get(dosage_request.request, "drug_name", NoneValue))

\* C30: a request with a missing or empty drug_name is answered with status
\* 400 and the dosage service is not called; status 500 is answered only
\* when the dosage service raised.
C30_MissingNameIs400 ==
    dosage_request.pc = "responded" =>
        /\ NoDrugName =>
              (dosage_request.status = 400 /\ ~dosage_request.called /\ pc = "idle")
        /\ dosage_request.status = 500 =>
              (dosage_request.called
                 /\ dosage_request.detail.type # "HTTPException")

====
